---- MODULE Spec2Model ----
(***************************************************************************)
(* TabletQuiz addon: review authorization (canReviewAttempt), the access   *)
(* rule registry, the password rule and the preflight gather/validate/     *)
(* retry loop (getAndCheckPreflightData), as state machines.               *)
(***************************************************************************)
EXTENDS Integers, Sequences, FiniteSets, TLC

(***************************************************************************)
(* Optional values (TypeScript `x?: T`): {} is undefined, {v} is v.        *)
(***************************************************************************)
Undefined == {}

Some(v) == {v}

\* x ?? d
Coalesce(x, d) == IF x = Undefined THEN d ELSE CHOOSE v \in x : TRUE

(***************************************************************************)
(* Outcome of an async function: still running, returned, or rejected.     *)
(***************************************************************************)
NoResult == [kind |-> "none"]

Return(v) == [kind |-> "return", value |-> v]

Throw(e) == [kind |-> "throw", error |-> e]

(***************************************************************************)
(* Program constants.                                                      *)
(***************************************************************************)
ADDON_MOD_TABLETQUIZ_IMMEDIATELY_AFTER_PERIOD == 120

DURING == 65536

IMMEDIATELY_AFTER == 4096

LATER_WHILE_OPEN == 256

AFTER_CLOSE == 16

AttemptStates == {"inprogress", "overdue", "finished", "abandoned"}

(***************************************************************************)
(* Bounds of the model.                                                    *)
(***************************************************************************)
\* Time (epoch seconds) at which completed attempts of the model finished.
TFinish == 1000

\* Number of groups of the course.
MaxGroups == 2

\* Number of quizzes with an entry of their own in the password table.
MaxQuizzes == 2

\* JavaScript's `a & b` on non-negative integers.
RECURSIVE BitAnd(_, _)
BitAnd(a, b) ==
    IF a = 0 \/ b = 0 THEN 0
    ELSE (a % 2) * (b % 2) + 2 * BitAnd(a \div 2, b \div 2)

(***************************************************************************)
(* State.                                                                  *)
(***************************************************************************)
VARIABLES
    tabletquiz,         \* quiz WS data: reviewattempt (optional bitmask), timeclose
    accessInfo,         \* capability flags of the viewer
    attempt,            \* attempt WS data: userid, state, preview, timefinish
    nowMs,              \* Date.now()
    groupInfo,          \* optional result of CoreGroups.getActivityGroupInfo
    attemptUserGroups,  \* optional result of CoreGroups.getUserGroupsInCourse
    lookupFailed,       \* which group lookup rejected, "none" if neither
    reviewPc,           \* position of the canReviewAttempt call
    reviewResult,       \* outcome of the canReviewAttempt call
    cannotReviewMessage, \* outcome of the getCannotReviewMessage call
    stateDisplayOption, \* outcome of the getAttemptStateDisplayOption call
    previousCall,       \* history: outcome and lookups of an earlier, identical
                        \* canReviewAttempt call, if there was one
    passwordTable,      \* PASSWORD_TABLE_NAME: quiz id -> optional stored password
    acceptedStored,     \* history: quiz ids whose password was stored by
                        \* notifyPreflightCheckPassed and not removed since
    passwordCall,       \* the last completed call of a password rule hook
    enabledHandlers,    \* rule names with an enabled handler in the delegate
    rules,              \* accessInfo.activerulenames
    attemptPresent,     \* whether options.attempt is passed (continuing an attempt)
    prefetch,           \* options.prefetch
    syncTime,           \* AddonModTabletQuizSync.getSyncTime(quiz id), in ms
    preflightData,      \* the preflight data object handed to the hooks
    regOp,              \* the delegate's aggregate function being executed
    regPc,              \* position of the aggregate call
    regTasks,           \* rule -> state of the promise of its async callback
    isRequired,         \* local variable of the delegate's isPreflightCheckRequired
    ruleAnswers,        \* rule -> optional answer its handler gave
    hooksRun,           \* rules whose handler hook was invoked and has settled
    regResult,          \* outcome of the aggregate call
    supportedCall,      \* the last isAccessRuleSupported call
    pfPc,               \* position of the getAndCheckPreflightData call
    retrying,           \* options.retrying of the current round
    preflightCheckRequired, \* local variable of getAndCheckPreflightData
    pfResult,           \* outcome of the outermost getAndCheckPreflightData call
    pendingNotify,      \* notify calls of the delegate started and not awaited
    round,              \* history: number of getAndCheckPreflightData invocations
    validations,        \* history: number of validation requests sent
    prompts,            \* history: number of preflight modals opened
    roundLog,           \* history: what happened in the current round
    lastFailure,        \* history: the last failed validation, if any
    dismissed,          \* history: the dismissal of the modal, if any
    timeLeftCall,       \* the last shouldShowTimeLeft call of the delegate
    indexPage,          \* the fields of the index component of the quiz
    wsCall,             \* the last online call: response received and outcome
    offlineCall,        \* the last isTabletQuizOffline call
    reviewPage,         \* the index component: auto review after a finished attempt
    prefetchHandler,    \* the prefetch handler: attemptFinished and its calls
    prefetchRun,        \* the last prefetchTabletQuiz run
    buttonCall,         \* the last getButtonText call of the index component
    displayClock        \* a completed attempt observed as the time advances

reviewVars ==
    <<tabletquiz, accessInfo, attempt, nowMs, groupInfo, attemptUserGroups,
      lookupFailed, reviewPc, reviewResult, cannotReviewMessage, stateDisplayOption,
      previousCall>>

passwordVars == <<passwordTable, acceptedStored, passwordCall>>

callVars ==
    <<enabledHandlers, rules, attemptPresent, prefetch, syncTime, preflightData>>

registryVars ==
    <<regOp, regPc, regTasks, isRequired, ruleAnswers, hooksRun, regResult,
      supportedCall>>

preflightVars ==
    <<pfPc, retrying, preflightCheckRequired, pfResult, pendingNotify, round,
      validations, prompts, roundLog, lastFailure, dismissed>>

timeLeftVars == <<timeLeftCall>>

indexVars == <<indexPage>>

onlineVars == <<wsCall>>

extraVars ==
    <<offlineCall, reviewPage, prefetchHandler, prefetchRun, buttonCall,
      displayClock>>

vars ==
    <<reviewVars, passwordVars, callVars, registryVars, preflightVars,
      timeLeftVars, indexVars, onlineVars, extraVars>>

QuizIds == 1 .. MaxQuizzes

\* The password table of a site on which no password was ever accepted.
PasswordIdle ==
    /\ passwordTable = [q \in QuizIds |-> Undefined]
    /\ acceptedStored = {}
    /\ passwordCall = [op |-> "none"]

\* The delegate with the handlers of the addon enabled and nothing to check.
CallIdle ==
    /\ enabledHandlers = {}
    /\ rules = {}
    /\ attemptPresent = FALSE
    /\ prefetch = FALSE
    /\ syncTime = 0
    /\ preflightData = [tabletquizpassword |-> Undefined,
                        confirmdatasaved |-> Undefined]

\* No aggregate call of the delegate is in progress.
RegistryIdle ==
    /\ regOp = "none"
    /\ regPc = "idle"
    /\ regTasks = <<>>
    /\ isRequired = FALSE
    /\ ruleAnswers = <<>>
    /\ hooksRun = {}
    /\ regResult = NoResult
    /\ supportedCall = [rule |-> "none"]

\* shouldShowTimeLeft was not called.
TimeLeftIdle ==
    timeLeftCall = [called |-> FALSE, preview |-> FALSE, endTime |-> 0,
                    timeNow |-> 0, customAnswer |-> FALSE, result |-> FALSE]

\* The download status of a module (DownloadStatus).
DOWNLOADED == "downloaded"

DOWNLOADING == "downloading"

DOWNLOADABLE_NOT_DOWNLOADED == "notdownloaded"

OUTDATED == "outdated"

DownloadStatuses ==
    {DOWNLOADED, DOWNLOADING, DOWNLOADABLE_NOT_DOWNLOADED, OUTDATED}

\* The index component as constructed (hasOffline = false,
\* showStatusSpinner = true), with no quiz loaded yet.
IndexIdle ==
    indexPage = [tabletquiz |-> FALSE, isTabletQuizOffline |-> FALSE,
                 currentStatus |-> DOWNLOADABLE_NOT_DOWNLOADED,
                 hasOffline |-> FALSE, showStatusSpinner |-> TRUE,
                 prefetching |-> 0, reloadPending |-> FALSE, calls |-> 0,
                 opened |-> 0, errorsShown |-> 0, lastPrefetch |-> "none"]

\* No online call was made.
OnlineIdle ==
    wsCall = [op |-> "none", response |-> Undefined, result |-> NoResult,
              notified |-> "none"]

\* isTabletQuizOffline was not called.
OfflineIdle == offlineCall = [called |-> FALSE]

\* The index component does not exist.
ReviewPageIdle == reviewPage = [created |-> FALSE]

\* The prefetch handler was not used.
PrefetchHandlerIdle == prefetchHandler = [used |-> FALSE]

\* prefetchTabletQuiz was not called.
PrefetchRunIdle == prefetchRun = [called |-> FALSE]

\* getButtonText was not called.
ButtonIdle == buttonCall = [called |-> FALSE]

\* No attempt is observed.
ClockIdle == displayClock = [observed |-> FALSE]

ExtraIdle ==
    /\ OfflineIdle
    /\ ReviewPageIdle
    /\ PrefetchHandlerIdle
    /\ PrefetchRunIdle
    /\ ButtonIdle
    /\ ClockIdle

\* What a round of getAndCheckPreflightData has done so far.
NewRound ==
    [validated |-> FALSE, notifiedFailed |-> FALSE, prompts |-> 0,
     entered |-> Undefined]

\* No getAndCheckPreflightData call was made.
PreflightIdle ==
    /\ pfPc = "idle"
    /\ retrying = FALSE
    /\ preflightCheckRequired = FALSE
    /\ pfResult = NoResult
    /\ pendingNotify = <<>>
    /\ round = 0
    /\ validations = 0
    /\ prompts = 0
    /\ roundLog = NewRound
    /\ lastFailure = Undefined
    /\ dismissed = Undefined

\* No canReviewAttempt call is in progress.
ReviewIdle ==
    /\ tabletquiz = [reviewattempt |-> Undefined, timeclose |-> 0]
    /\ accessInfo = [canattempt |-> FALSE, canpreview |-> FALSE,
                     canreviewmyattempts |-> FALSE, canviewreports |-> FALSE]
    /\ attempt = [userid |-> 1, state |-> "inprogress", preview |-> FALSE,
                  timefinish |-> Some(0)]
    /\ nowMs = TFinish * 1000
    /\ groupInfo = Undefined
    /\ attemptUserGroups = Undefined
    /\ lookupFailed = "none"
    /\ reviewPc = "idle"
    /\ reviewResult = NoResult
    /\ cannotReviewMessage = NoResult
    /\ stateDisplayOption = NoResult
    /\ previousCall = Undefined

(***************************************************************************)
(* AddonModTabletQuiz provider: display state and display options.         *)
(***************************************************************************)
\* Mutant: the `timeclose &&` guard (0 = no restriction) is dropped.
getAttemptStateDisplayOption_NoCloseGuard(tq, att, now) ==
    IF att.state = "inprogress" THEN DURING
    ELSE IF now >= tq.timeclose * 1000 THEN AFTER_CLOSE
    ELSE IF now < (Coalesce(att.timefinish, 0)
                    + ADDON_MOD_TABLETQUIZ_IMMEDIATELY_AFTER_PERIOD) * 1000
         THEN IMMEDIATELY_AFTER
    ELSE LATER_WHILE_OPEN

\* Mutant: the grace window is tested before the close time.
getAttemptStateDisplayOption_GraceFirst(tq, att, now) ==
    IF att.state = "inprogress" THEN DURING
    ELSE IF now < (Coalesce(att.timefinish, 0)
                    + ADDON_MOD_TABLETQUIZ_IMMEDIATELY_AFTER_PERIOD) * 1000
         THEN IMMEDIATELY_AFTER
    ELSE IF tq.timeclose # 0 /\ now >= tq.timeclose * 1000 THEN AFTER_CLOSE
    ELSE LATER_WHILE_OPEN

\* Mutant: the comparison with the close time is reversed.
getAttemptStateDisplayOption_CloseReversed(tq, att, now) ==
    IF att.state = "inprogress" THEN DURING
    ELSE IF tq.timeclose # 0 /\ now < tq.timeclose * 1000 THEN AFTER_CLOSE
    ELSE IF now < (Coalesce(att.timefinish, 0)
                    + ADDON_MOD_TABLETQUIZ_IMMEDIATELY_AFTER_PERIOD) * 1000
         THEN IMMEDIATELY_AFTER
    ELSE LATER_WHILE_OPEN

getAttemptStateDisplayOption(tq, att, now) ==
    IF att.state = "inprogress" THEN DURING
    ELSE IF tq.timeclose # 0 /\ now >= tq.timeclose * 1000 THEN AFTER_CLOSE
    ELSE IF now < (Coalesce(att.timefinish, 0)
                    + ADDON_MOD_TABLETQUIZ_IMMEDIATELY_AFTER_PERIOD) * 1000
         THEN IMMEDIATELY_AFTER
    ELSE LATER_WHILE_OPEN

calculateDisplayOptionValue(setting, state, whenSet, whenNotSet) ==
    IF BitAnd(setting, state) # 0 THEN whenSet ELSE whenNotSet

\* The `attempt` field of getDisplayOptionsForTabletQuiz.
getDisplayOptionsForTabletQuizAttempt(tq, state) ==
    calculateDisplayOptionValue(Coalesce(tq.reviewattempt, 0), state, TRUE, FALSE)

isAttemptCompleted(state) == state = "finished" \/ state = "abandoned"

(***************************************************************************)
(* AddonModTabletQuizHelper: review authorization.                         *)
(***************************************************************************)
CurrentSiteUserId == 1

\* Mutant: the two ordinary capabilities are swapped.
hasReviewCapabilityForAttempt_Swapped(tq, ai, att, now) ==
    IF ai.canviewreports \/ ai.canpreview THEN TRUE
    ELSE IF getAttemptStateDisplayOption(tq, att, now) = IMMEDIATELY_AFTER
         THEN ai.canreviewmyattempts
    ELSE ai.canattempt

hasReviewCapabilityForAttempt(tq, ai, att, now) ==
    IF ai.canviewreports \/ ai.canpreview THEN TRUE
    ELSE IF getAttemptStateDisplayOption(tq, att, now) = IMMEDIATELY_AFTER
         THEN ai.canattempt
    ELSE ai.canreviewmyattempts

\* Mutant: the workaround for an undefined reviewattempt is missing.
canReviewOwnAttempt_NoFallback(tq, ai, att, now) ==
    IF ~isAttemptCompleted(att.state) THEN FALSE
    ELSE IF att.preview /\ ai.canpreview THEN TRUE
    ELSE IF ~att.preview /\ ai.canviewreports THEN TRUE
    ELSE getDisplayOptionsForTabletQuizAttempt(
            tq, getAttemptStateDisplayOption(tq, att, now))

\* Mutant: the capability shortcuts are taken before the completion check.
canReviewOwnAttempt_ShortcutsFirst(tq, ai, att, now) ==
    IF att.preview /\ ai.canpreview THEN TRUE
    ELSE IF ~att.preview /\ ai.canviewreports THEN TRUE
    ELSE IF ~isAttemptCompleted(att.state) THEN FALSE
    ELSE IF tq.reviewattempt = Undefined THEN TRUE
    ELSE getDisplayOptionsForTabletQuizAttempt(
            tq, getAttemptStateDisplayOption(tq, att, now))

\* Mutant: a review is granted once, the grant being remembered across calls.
canReviewOwnAttempt_GrantedOnce(tq, ai, att, now) ==
    /\ previousCall = Undefined
    /\ IF ~isAttemptCompleted(att.state) THEN FALSE
       ELSE IF att.preview /\ ai.canpreview THEN TRUE
       ELSE IF ~att.preview /\ ai.canviewreports THEN TRUE
       ELSE IF tq.reviewattempt = Undefined THEN TRUE
       ELSE getDisplayOptionsForTabletQuizAttempt(
                tq, getAttemptStateDisplayOption(tq, att, now))

\* canReviewAttempt, lines 77-100: the decision for the viewer's own attempt.
canReviewOwnAttempt(tq, ai, att, now) ==
    IF ~isAttemptCompleted(att.state) THEN FALSE
    ELSE IF att.preview /\ ai.canpreview THEN TRUE
    ELSE IF ~att.preview /\ ai.canviewreports THEN TRUE
    ELSE IF tq.reviewattempt = Undefined THEN TRUE
    ELSE getDisplayOptionsForTabletQuizAttempt(
            tq, getAttemptStateDisplayOption(tq, att, now))

\* canReviewOtherUserAttempt, line 122.
groupAccessGranted(gi) == gi.canAccessAllGroups \/ ~gi.separateGroups

\* Mutant: any group membership of the attempt owner counts as shared.
sharesAnyGroup_AnyMembership(userGroups, groups) == userGroups # {}

\* canReviewOtherUserAttempt, line 133.
sharesAnyGroup(userGroups, groups) ==
    \E attemptUserGroup \in userGroups :
        \E group \in groups : attemptUserGroup = group

\* Mutant: the lookup error is rethrown instead of being swallowed.
groupLookupCatch_Rethrow == Throw("GroupLookupError")

\* canReviewOtherUserAttempt, the catch block of lines 134-136.
groupLookupCatch == Return(FALSE)

\* Translate.instant(key, { $a: CoreTime.userDate(timestamp, format) }): the
\* string shown, by its language key and the formatted time.
Message(key, timestamp, format) ==
    [key |-> key, timestamp |-> timestamp, format |-> format]

EmptyString == Message("", 0, "")

\* Mutant: the quiz's close time is the review time whatever the mask says.
getCannotReviewMessage_CloseTimeAlways(tq, att, short, now) ==
    LET displayOption == getAttemptStateDisplayOption(tq, att, now)
        reviewattempt == Coalesce(tq.reviewattempt, 0)
        afterClose == IF tq.timeclose # 0 THEN tq.timeclose ELSE 0
        reviewFrom ==
            IF displayOption = IMMEDIATELY_AFTER
            THEN IF BitAnd(reviewattempt, LATER_WHILE_OPEN) # 0
                 THEN Coalesce(att.timefinish, now)
                        + ADDON_MOD_TABLETQUIZ_IMMEDIATELY_AFTER_PERIOD
                 ELSE afterClose
            ELSE IF displayOption = LATER_WHILE_OPEN THEN afterClose
            ELSE 0
    IN  IF displayOption = DURING THEN EmptyString
        ELSE IF reviewFrom # 0
        THEN Message(IF short THEN "addon.mod_tabletquiz.noreviewuntilshort"
                     ELSE "addon.mod_tabletquiz.noreviewuntil",
                     reviewFrom * 1000,
                     IF short THEN "core.strftimedatetimeshort" ELSE "")
        ELSE Message("addon.mod_tabletquiz.noreviewattempt", 0, "")

\* Mutant: the IMMEDIATELY_AFTER case does not fall through.
getCannotReviewMessage_NoFallThrough(tq, att, short, now) ==
    LET displayOption == getAttemptStateDisplayOption(tq, att, now)
        reviewattempt == Coalesce(tq.reviewattempt, 0)
        afterClose ==
            IF tq.timeclose # 0 /\ BitAnd(reviewattempt, AFTER_CLOSE) # 0
            THEN tq.timeclose
            ELSE 0
        reviewFrom ==
            IF displayOption = IMMEDIATELY_AFTER
            THEN IF BitAnd(reviewattempt, LATER_WHILE_OPEN) # 0
                 THEN Coalesce(att.timefinish, now)
                        + ADDON_MOD_TABLETQUIZ_IMMEDIATELY_AFTER_PERIOD
                 ELSE 0
            ELSE IF displayOption = LATER_WHILE_OPEN THEN afterClose
            ELSE 0
    IN  IF displayOption = DURING THEN EmptyString
        ELSE IF reviewFrom # 0
        THEN Message(IF short THEN "addon.mod_tabletquiz.noreviewuntilshort"
                     ELSE "addon.mod_tabletquiz.noreviewuntil",
                     reviewFrom * 1000,
                     IF short THEN "core.strftimedatetimeshort" ELSE "")
        ELSE Message("addon.mod_tabletquiz.noreviewattempt", 0, "")

\* getCannotReviewMessage: the switch on the display state (with its fall
\* through from IMMEDIATELY_AFTER to LATER_WHILE_OPEN), then the message.
getCannotReviewMessage(tq, att, short, now) ==
    LET displayOption == getAttemptStateDisplayOption(tq, att, now)
        reviewattempt == Coalesce(tq.reviewattempt, 0)
        afterClose ==
            IF tq.timeclose # 0 /\ BitAnd(reviewattempt, AFTER_CLOSE) # 0
            THEN tq.timeclose
            ELSE 0
        reviewFrom ==
            IF displayOption = IMMEDIATELY_AFTER
            THEN IF BitAnd(reviewattempt, LATER_WHILE_OPEN) # 0
                 THEN Coalesce(att.timefinish, now)
                        + ADDON_MOD_TABLETQUIZ_IMMEDIATELY_AFTER_PERIOD
                 ELSE afterClose
            ELSE IF displayOption = LATER_WHILE_OPEN THEN afterClose
            ELSE 0
    IN  IF displayOption = DURING THEN EmptyString
        ELSE IF reviewFrom # 0
        THEN Message(IF short THEN "addon.mod_tabletquiz.noreviewuntilshort"
                     ELSE "addon.mod_tabletquiz.noreviewuntil",
                     reviewFrom * 1000,
                     IF short THEN "core.strftimedatetimeshort" ELSE "")
        ELSE Message("addon.mod_tabletquiz.noreviewattempt", 0, "")

(***************************************************************************)
(* Inputs of the review model.                                             *)
(***************************************************************************)
Groups == 1 .. MaxGroups

ReviewMasks ==
    {d + i + l + c : d \in {0, DURING}, i \in {0, IMMEDIATELY_AFTER},
                     l \in {0, LATER_WHILE_OPEN}, c \in {0, AFTER_CLOSE}}

\* The quiz never closes, closes inside the grace window, or closes later.
TimeCloseValues == {0, TFinish + 60, TFinish + 300}

NowValues ==
    {TFinish * 1000, (TFinish + 60) * 1000 - 1, (TFinish + 60) * 1000,
     (TFinish + ADDON_MOD_TABLETQUIZ_IMMEDIATELY_AFTER_PERIOD) * 1000 - 1,
     (TFinish + ADDON_MOD_TABLETQUIZ_IMMEDIATELY_AFTER_PERIOD) * 1000,
     (TFinish + 200) * 1000, (TFinish + 300) * 1000}

TabletQuizzes ==
    [reviewattempt : {Undefined} \cup {Some(m) : m \in ReviewMasks},
     timeclose : TimeCloseValues]

AccessInfos ==
    [canattempt : BOOLEAN, canpreview : BOOLEAN,
     canreviewmyattempts : BOOLEAN, canviewreports : BOOLEAN]

\* A completed attempt carries its finish time, any other attempt carries 0.
Attempts ==
    {a \in [userid : {CurrentSiteUserId, CurrentSiteUserId + 1},
            state : AttemptStates, preview : BOOLEAN,
            timefinish : {Some(0), Some(TFinish)}] :
        a.timefinish = Some(TFinish) <=> isAttemptCompleted(a.state)}

GroupInfos ==
    [canAccessAllGroups : BOOLEAN, separateGroups : BOOLEAN, groups : SUBSET Groups]

(***************************************************************************)
(* canReviewAttempt as a state machine: the synchronous prefix, then the   *)
(* two awaited group lookups of canReviewOtherUserAttempt.                 *)
(***************************************************************************)
InitReview ==
    /\ PasswordIdle
    /\ CallIdle
    /\ RegistryIdle
    /\ PreflightIdle
    /\ TimeLeftIdle
    /\ IndexIdle
    /\ OnlineIdle
    /\ ExtraIdle
    /\ tabletquiz \in TabletQuizzes
    /\ accessInfo \in AccessInfos
    /\ attempt \in Attempts
    /\ nowMs \in NowValues
    /\ groupInfo = Undefined
    /\ attemptUserGroups = Undefined
    /\ lookupFailed = "none"
    /\ reviewPc = "idle"
    /\ reviewResult = NoResult
    /\ cannotReviewMessage = NoResult
    /\ stateDisplayOption = NoResult
    /\ previousCall = Undefined

ReviewInputsUnchanged ==
    UNCHANGED <<tabletquiz, accessInfo, attempt, nowMs, previousCall,
                passwordVars, callVars, registryVars, preflightVars,
                timeLeftVars, indexVars, onlineVars, extraVars>>

\* A group lookup of a repeated call answers as it did in the earlier call.
SameAsPreviousCall(lookup, outcome) ==
    IF previousCall = Undefined THEN TRUE
    ELSE (CHOOSE call \in previousCall : TRUE)[lookup] = outcome

ReviewCallUnchanged ==
    UNCHANGED <<groupInfo, attemptUserGroups, lookupFailed, reviewPc, reviewResult>>

canReviewAttempt ==
    /\ reviewPc = "idle"
    /\ IF ~hasReviewCapabilityForAttempt(tabletquiz, accessInfo, attempt, nowMs)
       THEN /\ reviewResult' = Return(FALSE)
            /\ reviewPc' = "done"
       ELSE IF attempt.userid # CurrentSiteUserId
       THEN \* canReviewOtherUserAttempt up to its first await.
            IF ~accessInfo.canviewreports
            THEN /\ reviewResult' = Return(FALSE)
                 /\ reviewPc' = "done"
            ELSE /\ reviewResult' = NoResult
                 /\ reviewPc' = "getActivityGroupInfo"
       ELSE /\ reviewResult' =
                Return(canReviewOwnAttempt(tabletquiz, accessInfo, attempt, nowMs))
            /\ reviewPc' = "done"
    /\ UNCHANGED <<groupInfo, attemptUserGroups, lookupFailed, cannotReviewMessage,
                   stateDisplayOption>>
    /\ ReviewInputsUnchanged

getActivityGroupInfoResolves ==
    /\ reviewPc = "getActivityGroupInfo"
    /\ \E gi \in GroupInfos :
        /\ SameAsPreviousCall("getActivityGroupInfo", Return(gi))
        /\ groupInfo' = Some(gi)
        /\ IF groupAccessGranted(gi)
           THEN reviewResult' = Return(TRUE) /\ reviewPc' = "done"
           ELSE IF Cardinality(gi.groups) = 0
           THEN reviewResult' = Return(FALSE) /\ reviewPc' = "done"
           ELSE reviewResult' = NoResult /\ reviewPc' = "getUserGroupsInCourse"
    /\ UNCHANGED <<attemptUserGroups, lookupFailed, cannotReviewMessage,
                   stateDisplayOption>>
    /\ ReviewInputsUnchanged

getActivityGroupInfoRejects ==
    /\ reviewPc = "getActivityGroupInfo"
    /\ SameAsPreviousCall("getActivityGroupInfo", Throw("GroupLookupError"))
    /\ lookupFailed' = "getActivityGroupInfo"
    /\ reviewResult' = groupLookupCatch
    /\ reviewPc' = "done"
    /\ UNCHANGED <<groupInfo, attemptUserGroups, cannotReviewMessage,
                   stateDisplayOption>>
    /\ ReviewInputsUnchanged

getUserGroupsInCourseResolves ==
    /\ reviewPc = "getUserGroupsInCourse"
    /\ \E ug \in SUBSET Groups :
        /\ SameAsPreviousCall("getUserGroupsInCourse", Return(ug))
        /\ attemptUserGroups' = Some(ug)
        /\ reviewResult' = Return(sharesAnyGroup(ug, Coalesce(groupInfo, 0).groups))
    /\ reviewPc' = "done"
    /\ UNCHANGED <<groupInfo, lookupFailed, cannotReviewMessage,
                   stateDisplayOption>>
    /\ ReviewInputsUnchanged

getUserGroupsInCourseRejects ==
    /\ reviewPc = "getUserGroupsInCourse"
    /\ SameAsPreviousCall("getUserGroupsInCourse", Throw("GroupLookupError"))
    /\ lookupFailed' = "getUserGroupsInCourse"
    /\ reviewResult' = groupLookupCatch
    /\ reviewPc' = "done"
    /\ UNCHANGED <<groupInfo, attemptUserGroups, cannotReviewMessage,
                   stateDisplayOption>>
    /\ ReviewInputsUnchanged

NextReview ==
    \/ canReviewAttempt
    \/ getActivityGroupInfoResolves
    \/ getActivityGroupInfoRejects
    \/ getUserGroupsInCourseResolves
    \/ getUserGroupsInCourseRejects

SpecReview == InitReview /\ [][NextReview]_vars

(***************************************************************************)
(* canReviewAttempt called twice with the same quiz, access information,   *)
(* attempt and time, the group lookups of the second call answering as in  *)
(* the first.  canReviewOtherUserAttempt does not read the review setting, *)
(* so other users' attempts are taken with the setting undefined.          *)
(***************************************************************************)
InitRepeatedReview ==
    /\ InitReview
    /\ attempt.userid # CurrentSiteUserId => tabletquiz.reviewattempt = Undefined

LookupOutcome(lookup, value) ==
    IF lookupFailed = lookup THEN Throw("GroupLookupError")
    ELSE IF value = Undefined THEN NoResult
    ELSE Return(Coalesce(value, 0))

canReviewAttemptAgain ==
    /\ reviewPc = "done"
    /\ previousCall = Undefined
    /\ previousCall' =
        Some([result |-> reviewResult,
              getActivityGroupInfo |->
                LookupOutcome("getActivityGroupInfo", groupInfo),
              getUserGroupsInCourse |->
                LookupOutcome("getUserGroupsInCourse", attemptUserGroups)])
    /\ reviewPc' = "idle"
    /\ reviewResult' = NoResult
    /\ groupInfo' = Undefined
    /\ attemptUserGroups' = Undefined
    /\ lookupFailed' = "none"
    /\ UNCHANGED <<tabletquiz, accessInfo, attempt, nowMs, cannotReviewMessage,
                   stateDisplayOption, passwordVars, callVars, registryVars,
                   preflightVars, timeLeftVars, indexVars, onlineVars, extraVars>>

NextRepeatedReview ==
    \/ canReviewAttempt
    \/ getActivityGroupInfoResolves
    \/ getActivityGroupInfoRejects
    \/ getUserGroupsInCourseResolves
    \/ getUserGroupsInCourseRejects
    \/ canReviewAttemptAgain

SpecRepeatedReview == InitRepeatedReview /\ [][NextRepeatedReview]_vars

(***************************************************************************)
(* The attempt page of the viewer's own attempt: it asks canReviewAttempt  *)
(* whether to offer the review and getCannotReviewMessage what to show     *)
(* otherwise, for the same quiz and attempt.                               *)
(***************************************************************************)
InitOwnReview == InitReview /\ attempt.userid = CurrentSiteUserId

GetCannotReviewMessage ==
    /\ cannotReviewMessage = NoResult
    /\ \E short \in BOOLEAN :
        cannotReviewMessage' =
            Return(getCannotReviewMessage(tabletquiz, attempt, short, nowMs))
    /\ UNCHANGED stateDisplayOption
    /\ ReviewCallUnchanged
    /\ ReviewInputsUnchanged

GetAttemptStateDisplayOption ==
    /\ stateDisplayOption = NoResult
    /\ stateDisplayOption' =
        Return(getAttemptStateDisplayOption(tabletquiz, attempt, nowMs))
    /\ UNCHANGED cannotReviewMessage
    /\ ReviewCallUnchanged
    /\ ReviewInputsUnchanged

NextOwnReview ==
    \/ canReviewAttempt
    \/ GetCannotReviewMessage
    \/ GetAttemptStateDisplayOption

SpecOwnReview == InitOwnReview /\ [][NextOwnReview]_vars

(***************************************************************************)
(* Properties of canReviewAttempt.                                         *)
(***************************************************************************)
ReviewDone == reviewPc = "done"

OwnAttempt == attempt.userid = CurrentSiteUserId

NoSpecialCapabilities == ~accessInfo.canviewreports /\ ~accessInfo.canpreview

\* The display state of the attempt at the time of the call.
CurrentDisplayState == getAttemptStateDisplayOption(tabletquiz, attempt, nowMs)

\* The ordinary capability that applies to the current display state.
HoldsOrdinaryCapability ==
    IF CurrentDisplayState = IMMEDIATELY_AFTER
    THEN accessInfo.canattempt
    ELSE accessInfo.canreviewmyattempts

GroupSeparationApplies ==
    /\ groupInfo # Undefined
    /\ Coalesce(groupInfo, 0).separateGroups
    /\ ~Coalesce(groupInfo, 0).canAccessAllGroups

SharedGroups ==
    IF groupInfo = Undefined \/ attemptUserGroups = Undefined THEN {}
    ELSE Coalesce(groupInfo, 0).groups \cap Coalesce(attemptUserGroups, 0)

\* C7: if getActivityGroupInfo or getUserGroupsInCourse rejects while the
\* review of another user's attempt is being authorized, canReviewAttempt
\* resolves with false and the lookup error is not propagated.
C7_GroupLookupFailureDenies ==
    lookupFailed # "none" => (ReviewDone /\ reviewResult = Return(FALSE))

C7_Witness ==
    /\ ReviewDone
    /\ ~OwnAttempt
    /\ lookupFailed = "getUserGroupsInCourse"
    /\ GroupSeparationApplies

\* C8: for another user's attempt canReviewAttempt returns true only if the
\* viewer has canViewReports and either no group separation applies to the
\* viewer or the viewer shares a group with the attempt owner; with group
\* separation and no shared group it returns false even with canViewReports.
C8_OtherUserAttemptNeedsReportsAndGroup ==
    (ReviewDone /\ ~OwnAttempt) =>
        /\ reviewResult = Return(TRUE) =>
            /\ accessInfo.canviewreports
            /\ groupInfo # Undefined
            /\ (~GroupSeparationApplies \/ SharedGroups # {})
        /\ (GroupSeparationApplies /\ SharedGroups = {}) =>
            reviewResult = Return(FALSE)

C8_Witness ==
    /\ ReviewDone
    /\ ~OwnAttempt
    /\ accessInfo.canviewreports
    /\ GroupSeparationApplies
    /\ attemptUserGroups # Undefined
    /\ Coalesce(attemptUserGroups, 0) # {}
    /\ SharedGroups = {}
    /\ reviewResult = Return(FALSE)

\* C9 as stated: with reviewAttempt undefined, canReviewAttempt returns true
\* for a finished attempt viewed by its owner, whatever capabilities the
\* viewer holds (even none).
C9_UndefinedReviewAttemptAllowsWithoutCapabilities ==
    (ReviewDone /\ OwnAttempt /\ attempt.state = "finished"
        /\ tabletquiz.reviewattempt = Undefined)
    => reviewResult = Return(TRUE)

\* C9 amended: with reviewAttempt undefined, canReviewAttempt returns true for
\* a finished attempt viewed by its owner provided the viewer passes the
\* capability check (canViewReports or canPreview, or canAttempt while the
\* display state is IMMEDIATELY_AFTER, otherwise canReviewMyAttempts); a
\* viewer that fails the capability check is denied.
C9_UndefinedReviewAttemptAllowsEligibleOwner ==
    (ReviewDone /\ OwnAttempt /\ attempt.state = "finished"
        /\ tabletquiz.reviewattempt = Undefined)
    => reviewResult =
        Return(accessInfo.canviewreports \/ accessInfo.canpreview
               \/ HoldsOrdinaryCapability)

C9_Witness ==
    /\ ReviewDone
    /\ OwnAttempt
    /\ attempt.state = "finished"
    /\ tabletquiz.reviewattempt = Undefined
    /\ NoSpecialCapabilities
    /\ reviewResult = Return(TRUE)

\* C10: for a completed attempt viewed by its owner, who holds no special
\* capability (neither canViewReports nor canPreview) but the ordinary one of
\* a student, canReviewAttempt returns true whenever the reviewAttempt bitmask
\* has the bit of the current display state set; in particular with bitmask
\* IMMEDIATELY_AFTER | LATER_WHILE_OPEN, the attempt finished 200 s ago and
\* the quiz not yet closed.
C10_Scenario1 ==
    /\ tabletquiz.reviewattempt = Some(IMMEDIATELY_AFTER + LATER_WHILE_OPEN)
    /\ attempt.state = "finished"
    /\ nowMs = (Coalesce(attempt.timefinish, 0) + 200) * 1000
    /\ (tabletquiz.timeclose = 0 \/ nowMs < tabletquiz.timeclose * 1000)

MessageDone == cannotReviewMessage # NoResult

ReviewMask == Coalesce(tabletquiz.reviewattempt, 0)

NotAllowedMessage == Message("addon.mod_tabletquiz.noreviewattempt", 0, "")

\* Bitmask IMMEDIATELY_AFTER only, attempt finished 200 s ago.
C11_Scenario2 ==
    /\ tabletquiz.reviewattempt = Some(IMMEDIATELY_AFTER)
    /\ attempt.state = "finished"
    /\ nowMs = (Coalesce(attempt.timefinish, 0) + 200) * 1000

\* C11: for a completed attempt viewed by its owner, who has neither
\* canViewReports nor canPreview, with a defined reviewAttempt bitmask that
\* lacks the bit of the current display state, canReviewAttempt returns false;
\* with bitmask IMMEDIATELY_AFTER only and 200 s elapsed since the finish,
\* getCannotReviewMessage returns the generic 'not allowed' message.
C11_OwnerDeniedWhenStateBitMissing ==
    /\ (ReviewDone /\ OwnAttempt /\ isAttemptCompleted(attempt.state)
            /\ NoSpecialCapabilities
            /\ tabletquiz.reviewattempt # Undefined
            /\ BitAnd(ReviewMask, CurrentDisplayState) = 0)
        => reviewResult = Return(FALSE)
    /\ (MessageDone /\ C11_Scenario2)
        => cannotReviewMessage = Return(NotAllowedMessage)

C11_Witness ==
    /\ ReviewDone
    /\ MessageDone
    /\ OwnAttempt
    /\ NoSpecialCapabilities
    /\ HoldsOrdinaryCapability
    /\ C11_Scenario2
    /\ tabletquiz.timeclose = Coalesce(attempt.timefinish, 0) + 300
    /\ CurrentDisplayState = LATER_WHILE_OPEN
    /\ reviewResult = Return(FALSE)
    /\ cannotReviewMessage = Return(NotAllowedMessage)

PassedCapabilityCheck ==
    accessInfo.canviewreports \/ accessInfo.canpreview \/ HoldsOrdinaryCapability

StateBitSet == BitAnd(ReviewMask, CurrentDisplayState) # 0

\* C12 (as stated): for an attempt owned by the viewer that passed the
\* capability check, canReviewAttempt denies if the attempt is not completed;
\* else allows if it is a preview and the viewer has canPreview; else allows
\* if it is not a preview and the viewer has canViewReports; else allows iff
\* the reviewAttempt bitmask has the bit of the current display state set.
C12_OwnAttemptDecisionOrder ==
    (ReviewDone /\ OwnAttempt /\ PassedCapabilityCheck) =>
        reviewResult =
            Return(IF ~isAttemptCompleted(attempt.state) THEN FALSE
                   ELSE IF attempt.preview /\ accessInfo.canpreview THEN TRUE
                   ELSE IF ~attempt.preview /\ accessInfo.canviewreports THEN TRUE
                   ELSE StateBitSet)

\* C12 (amended): as above, but before the bitmask is consulted the attempt
\* is allowed if the quiz's reviewAttempt setting is undefined; the bitmask
\* decides only when it is defined.
C12_OwnAttemptDecisionOrderWithFallback ==
    (ReviewDone /\ OwnAttempt /\ PassedCapabilityCheck) =>
        reviewResult =
            Return(IF ~isAttemptCompleted(attempt.state) THEN FALSE
                   ELSE IF attempt.preview /\ accessInfo.canpreview THEN TRUE
                   ELSE IF ~attempt.preview /\ accessInfo.canviewreports THEN TRUE
                   ELSE IF tabletquiz.reviewattempt = Undefined THEN TRUE
                   ELSE StateBitSet)

\* The viewer's own preview, reviewed with canViewReports but without
\* canPreview: neither shortcut applies, and the undefined setting allows.
C12_Witness ==
    /\ ReviewDone
    /\ OwnAttempt
    /\ isAttemptCompleted(attempt.state)
    /\ attempt.preview
    /\ ~accessInfo.canpreview
    /\ accessInfo.canviewreports
    /\ tabletquiz.reviewattempt = Undefined
    /\ reviewResult = Return(TRUE)

\* C13: canReviewAttempt returns false whenever the capability eligibility
\* (canViewReports, or canPreview, or canAttempt while the display state is
\* IMMEDIATELY_AFTER and canReviewMyAttempts otherwise) is false, whatever
\* the review setting, the attempt state and the owner of the attempt; no
\* group lookup is made for such a call.
C13_NoCapabilityNoReview ==
    ~PassedCapabilityCheck =>
        /\ reviewPc \in {"idle", "done"}
        /\ ReviewDone => reviewResult = Return(FALSE)
        /\ groupInfo = Undefined

\* The owner's finished attempt with an undefined review setting, which would
\* be allowed, is refused: the viewer may attempt but not review attempts and
\* the grace period is over.
C13_Witness ==
    /\ ReviewDone
    /\ ~PassedCapabilityCheck
    /\ OwnAttempt
    /\ attempt.state = "finished"
    /\ tabletquiz.reviewattempt = Undefined
    /\ accessInfo.canattempt
    /\ CurrentDisplayState = LATER_WHILE_OPEN
    /\ reviewResult = Return(FALSE)

DisplayOptionDone == stateDisplayOption # NoResult

QuizClosed ==
    tabletquiz.timeclose # 0 /\ nowMs >= tabletquiz.timeclose * 1000

InGraceWindow ==
    nowMs < (Coalesce(attempt.timefinish, 0)
                + ADDON_MOD_TABLETQUIZ_IMMEDIATELY_AFTER_PERIOD) * 1000

\* C14: getAttemptStateDisplayOption returns exactly one display state, by
\* the ordered rule: DURING if the attempt is in progress, even if the quiz
\* has closed; else AFTER_CLOSE if timeClose is non-zero and now >= timeClose,
\* even inside the 120 s after the finish; else IMMEDIATELY_AFTER if
\* now < timeFinish + 120; else LATER_WHILE_OPEN.
C14_DisplayStateOrderedRule ==
    DisplayOptionDone =>
        /\ stateDisplayOption.value \in
            {DURING, IMMEDIATELY_AFTER, LATER_WHILE_OPEN, AFTER_CLOSE}
        /\ stateDisplayOption.value = DURING <=> attempt.state = "inprogress"
        /\ stateDisplayOption.value = AFTER_CLOSE <=>
            (attempt.state # "inprogress" /\ QuizClosed)
        /\ stateDisplayOption.value = IMMEDIATELY_AFTER <=>
            (attempt.state # "inprogress" /\ ~QuizClosed /\ InGraceWindow)
        /\ stateDisplayOption.value = LATER_WHILE_OPEN <=>
            (attempt.state # "inprogress" /\ ~QuizClosed /\ ~InGraceWindow)

\* A quiz that closed inside the grace window of a finished attempt.
C14_Witness ==
    /\ DisplayOptionDone
    /\ attempt.state = "finished"
    /\ QuizClosed
    /\ InGraceWindow
    /\ stateDisplayOption = Return(AFTER_CLOSE)

NotAvailableUntil(m, reviewFrom) ==
    /\ m.key \in {"addon.mod_tabletquiz.noreviewuntil",
                  "addon.mod_tabletquiz.noreviewuntilshort"}
    /\ m.timestamp = reviewFrom * 1000

LaterWhileOpenBitSet == BitAnd(ReviewMask, LATER_WHILE_OPEN) # 0

AfterCloseBitSet == BitAnd(ReviewMask, AFTER_CLOSE) # 0

\* C15: getCannotReviewMessage returns the empty string when the display
\* state is DURING; otherwise 'not available until <reviewFrom>' with
\* reviewFrom = timeFinish + 120 when the state is IMMEDIATELY_AFTER and the
\* LATER_WHILE_OPEN bit is set, with reviewFrom = timeClose when the state is
\* LATER_WHILE_OPEN (or IMMEDIATELY_AFTER without the LATER_WHILE_OPEN bit),
\* timeClose is non-zero and the AFTER_CLOSE bit is set, and the generic 'not
\* allowed' message in every other case.
C15_CannotReviewMessageCases ==
    MessageDone =>
        LET m == cannotReviewMessage.value
        IN  IF CurrentDisplayState = DURING
            THEN m = EmptyString
            ELSE IF CurrentDisplayState = IMMEDIATELY_AFTER /\ LaterWhileOpenBitSet
            THEN NotAvailableUntil(
                    m, Coalesce(attempt.timefinish, 0)
                        + ADDON_MOD_TABLETQUIZ_IMMEDIATELY_AFTER_PERIOD)
            ELSE IF /\ CurrentDisplayState \in {IMMEDIATELY_AFTER, LATER_WHILE_OPEN}
                    /\ tabletquiz.timeclose # 0
                    /\ AfterCloseBitSet
            THEN NotAvailableUntil(m, tabletquiz.timeclose)
            ELSE m = NotAllowedMessage

\* Inside the grace window with only the AFTER_CLOSE bit: the review opens
\* when the quiz closes.
C15_Witness ==
    /\ MessageDone
    /\ CurrentDisplayState = IMMEDIATELY_AFTER
    /\ tabletquiz.reviewattempt = Some(AFTER_CLOSE)
    /\ tabletquiz.timeclose # 0
    /\ NotAvailableUntil(cannotReviewMessage.value, tabletquiz.timeclose)
    /\ cannotReviewMessage.value.format = "core.strftimedatetimeshort"

PreviousCall == Coalesce(previousCall, 0)

SecondCallDone == ReviewDone /\ previousCall # Undefined

Passwords == {"alpha", "beta"}

\* Preflight data: rule-defined field name -> optional string value.
PreflightDatas ==
    [tabletquizpassword : {Undefined} \cup {Some(p) : p \in Passwords},
     confirmdatasaved : {Undefined, Some("1")}]

\* CorePromiseUtils.ignoreErrors: the value, or undefined on rejection.
ignoreErrors(outcome) ==
    IF outcome.kind = "return" THEN Some(outcome.value) ELSE Undefined

\* getRecord rejects when the table holds no record with that id.
getPasswordEntry(table, tabletquizId) ==
    IF table[tabletquizId] = Undefined
    THEN Throw("record not found")
    ELSE Return([id |-> tabletquizId,
                 password |-> Coalesce(table[tabletquizId], "")])

\* Mutant: the stored password replaces the one of the preflight data.
passwordGetFixedPreflightData_Overwrites(table, tabletquizId, data) ==
    LET entry == getPasswordEntry(table, tabletquizId)
    IN  IF entry.kind = "return"
        THEN [data EXCEPT !.tabletquizpassword = Some(entry.value.password)]
        ELSE data

passwordGetFixedPreflightData(table, tabletquizId, data) ==
    IF data.tabletquizpassword # Undefined THEN data
    ELSE LET entry == getPasswordEntry(table, tabletquizId)
         IN  IF entry.kind = "return"
             THEN [data EXCEPT
                     !.tabletquizpassword = Some(entry.value.password)]
             ELSE data

passwordIsPreflightCheckRequired(table, tabletquizId) ==
    ignoreErrors(getPasswordEntry(table, tabletquizId)) = Undefined

storePassword(table, tabletquizId, password) ==
    [table EXCEPT ![tabletquizId] = Some(password)]

removePassword(table, tabletquizId) ==
    [table EXCEPT ![tabletquizId] = Undefined]

passwordNotifyPreflightCheckPassed(table, tabletquizId, data) ==
    IF data.tabletquizpassword # Undefined
    THEN storePassword(table, tabletquizId,
                       Coalesce(data.tabletquizpassword, ""))
    ELSE table

\* Mutant: the stored password is removed only if the data holds a password.
passwordNotifyPreflightCheckFailed_Guarded(table, tabletquizId, data) ==
    IF data.tabletquizpassword # Undefined
    THEN removePassword(table, tabletquizId)
    ELSE table

passwordNotifyPreflightCheckFailed(table, tabletquizId, data) ==
    removePassword(table, tabletquizId)

(***************************************************************************)
(* The password rule alone: any sequence of completed hook calls.  A write *)
(* to the local store may be rejected (dbOk = FALSE), and then changes     *)
(* nothing.                                                                *)
(***************************************************************************)
PasswordFrame ==
    UNCHANGED <<reviewVars, callVars, registryVars, preflightVars, timeLeftVars,
                indexVars, onlineVars, extraVars>>

InitPassword ==
    /\ ReviewIdle /\ PasswordIdle /\ CallIdle /\ RegistryIdle /\ PreflightIdle
    /\ TimeLeftIdle
    /\ IndexIdle
    /\ OnlineIdle
    /\ ExtraIdle

PasswordIsPreflightCheckRequired ==
    /\ \E q \in QuizIds :
        passwordCall' =
            [op |-> "isPreflightCheckRequired", quiz |-> q,
             result |-> Return(passwordIsPreflightCheckRequired(passwordTable, q))]
    /\ UNCHANGED <<passwordTable, acceptedStored>>
    /\ PasswordFrame

PasswordGetFixedPreflightData ==
    /\ \E q \in QuizIds, pd \in PreflightDatas :
        passwordCall' =
            [op |-> "getFixedPreflightData", quiz |-> q, preflightData |-> pd,
             result |-> Return(passwordGetFixedPreflightData(passwordTable, q, pd))]
    /\ UNCHANGED <<passwordTable, acceptedStored>>
    /\ PasswordFrame

PasswordNotifyPreflightCheckPassed ==
    /\ \E q \in QuizIds, pd \in PreflightDatas, dbOk \in BOOLEAN :
        LET writes == pd.tabletquizpassword # Undefined
        IN  /\ passwordTable' =
                IF dbOk THEN passwordNotifyPreflightCheckPassed(passwordTable, q, pd)
                ELSE passwordTable
            /\ acceptedStored' =
                IF writes /\ dbOk THEN acceptedStored \cup {q} ELSE acceptedStored
            /\ passwordCall' =
                [op |-> "notifyPreflightCheckPassed", quiz |-> q, preflightData |-> pd,
                 result |-> IF writes /\ ~dbOk THEN Throw("db") ELSE Return("void")]
    /\ PasswordFrame

PasswordNotifyPreflightCheckFailed ==
    /\ \E q \in QuizIds, pd \in PreflightDatas, dbOk \in BOOLEAN :
        /\ passwordTable' =
            IF dbOk THEN passwordNotifyPreflightCheckFailed(passwordTable, q, pd)
            ELSE passwordTable
        /\ acceptedStored' = IF dbOk THEN acceptedStored \ {q} ELSE acceptedStored
        /\ passwordCall' =
            [op |-> "notifyPreflightCheckFailed", quiz |-> q, preflightData |-> pd,
             result |-> IF dbOk THEN Return("void") ELSE Throw("db")]
    /\ PasswordFrame

NextPassword ==
    \/ PasswordIsPreflightCheckRequired
    \/ PasswordGetFixedPreflightData
    \/ PasswordNotifyPreflightCheckPassed
    \/ PasswordNotifyPreflightCheckFailed

SpecPassword == InitPassword /\ [][NextPassword]_vars

\* C2: for the password rule and any sequence of completed
\* notifyPreflightCheckPassed / notifyPreflightCheckFailed calls, once a
\* password has been stored by notifyPreflightCheckPassed every later
\* isPreflightCheckRequired for that quiz returns false until a
\* notifyPreflightCheckFailed for that quiz removes it, after which it returns
\* true again; with nothing stored it returns true.
C2_RequiredIffNoAcceptedPasswordStored ==
    passwordCall.op = "isPreflightCheckRequired" =>
        passwordCall.result = Return(passwordCall.quiz \notin acceptedStored)

C2_Witness ==
    /\ passwordCall.op = "isPreflightCheckRequired"
    /\ passwordCall.result = Return(FALSE)
    /\ \E q \in QuizIds : q # passwordCall.quiz /\ q \notin acceptedStored

(***************************************************************************)
(* Access rule delegate (AddonModTabletTabletQuizAccessRuleDelegate) and   *)
(* the rule handlers registered in it.                                     *)
(***************************************************************************)
PasswordRule == "tabletquizaccess_password"

TimeLimitRule == "tabletquizaccess_timelimit"

OfflineAttemptsRule == "tabletquizaccess_offlineattempts"

\* Any other registered handler: it implements every optional hook of the
\* AddonModTabletTabletQuizAccessRuleHandler interface, and each hook may
\* resolve or reject.
CustomRule == "local_customrule"

\* A rule name no handler is registered for.
UnknownRule == "tabletquizaccess_unknown"

RegisteredRules == {PasswordRule, TimeLimitRule, OfflineAttemptsRule, CustomRule}

RuleNames == RegisteredRules \cup {UnknownRule}

AggregateFunctions ==
    {"isPreflightCheckRequired", "getFixedPreflightData",
     "notifyPreflightCheckPassed", "notifyPreflightCheckFailed"}

\* The functions each handler class defines.
handlerImplements(rule, fnName) ==
    IF rule = PasswordRule THEN fnName \in AggregateFunctions
    ELSE IF rule = TimeLimitRule
         THEN fnName \in {"isPreflightCheckRequired", "shouldShowTimeLeft"}
    ELSE IF rule = OfflineAttemptsRule
         THEN fnName \in {"isPreflightCheckRequired", "getFixedPreflightData"}
    ELSE rule = CustomRule

\* The quiz the calls are made for.
ThisQuizId == 1

\* CoreSyncBaseProvider.syncInterval, in ms.
syncInterval == 300000

timeLimitIsPreflightCheckRequired(hasAttempt) == ~hasAttempt

\* Mutant: a sync exactly one interval ago already counts as old.
offlineAttemptsIsPreflightCheckRequired_AtInterval(isPrefetch, hasAttempt, now, lastSync) ==
    IF isPrefetch THEN FALSE
    ELSE IF ~hasAttempt THEN TRUE
    ELSE now - syncInterval >= lastSync

offlineAttemptsIsPreflightCheckRequired(isPrefetch, hasAttempt, now, lastSync) ==
    IF isPrefetch THEN FALSE
    ELSE IF ~hasAttempt THEN TRUE
    ELSE now - syncInterval > lastSync

offlineAttemptsGetFixedPreflightData(data) ==
    [data EXCEPT !.confirmdatasaved = Some("1")]

\* CoreDelegate.hasHandler(name, true).
hasHandler(name, enabled) == name \in enabled

isAccessRuleSupported(ruleName) == hasHandler(ruleName, enabledHandlers)

\* CorePromiseUtils.allPromisesIgnoringErrors: settles once every promise has
\* settled, and never rejects.
allPromisesIgnoringErrors(states) ==
    IF "pending" \in states THEN "pending" ELSE "fulfilled"

\* Mutant: the callbacks are awaited with Promise.all, which rejects with
\* the first rejection.
delegateAwaitAll_PromiseAll(states) ==
    IF "rejected" \in states THEN "rejected"
    ELSE IF "pending" \in states THEN "pending"
    ELSE "fulfilled"

\* The `await CorePromiseUtils.allPromisesIgnoringErrors(rules.map(...))` of
\* the delegate's aggregate functions.
delegateAwaitAll(states) == allPromisesIgnoringErrors(states)

\* isPreflightCheckRequiredForRule: `!!isRequired` of the handler's answer.
isPreflightCheckRequiredForRule(answer) == answer = Some(TRUE)

\* Mutant: the answer of the rule that completes last wins.
accumulateRequired_LastWins(required, ruleRequired) == ruleRequired

\* isPreflightCheckRequired, line 218.
accumulateRequired(required, ruleRequired) == required \/ ruleRequired

\* What the callback of `rule` can do when it settles: CoreDelegate's
\* executeFunctionOnEnabled calls the function of the enabled handler, and
\* returns undefined if there is no enabled handler or it lacks the function.
HookSettlements(rule, fnName) ==
    LET unchanged(settle, answer, ran) ==
            [settle |-> settle, answer |-> answer, ran |-> ran,
             table |-> passwordTable, data |-> preflightData]
    IN
    IF ~(hasHandler(rule, enabledHandlers) /\ handlerImplements(rule, fnName))
    THEN {unchanged("resolved", Undefined, FALSE)}
    ELSE IF rule = CustomRule
    THEN {unchanged("rejected", Undefined, TRUE)}
         \cup (IF fnName = "isPreflightCheckRequired"
                THEN {unchanged("resolved", Some(b), TRUE) : b \in BOOLEAN}
                ELSE {unchanged("resolved", Undefined, TRUE)})
    ELSE IF fnName = "isPreflightCheckRequired"
    THEN {unchanged("resolved",
            Some(IF rule = PasswordRule
                 THEN passwordIsPreflightCheckRequired(passwordTable, ThisQuizId)
                 ELSE IF rule = TimeLimitRule
                 THEN timeLimitIsPreflightCheckRequired(attemptPresent)
                 ELSE offlineAttemptsIsPreflightCheckRequired(
                        prefetch, attemptPresent, nowMs, syncTime)),
            TRUE)}
    ELSE IF fnName = "getFixedPreflightData"
    THEN {[settle |-> "resolved", answer |-> Undefined, ran |-> TRUE,
           table |-> passwordTable,
           data |-> IF rule = PasswordRule
                    THEN passwordGetFixedPreflightData(
                            passwordTable, ThisQuizId, preflightData)
                    ELSE offlineAttemptsGetFixedPreflightData(preflightData)]}
    ELSE IF fnName = "notifyPreflightCheckPassed"
    THEN {[settle |-> "resolved", answer |-> Undefined, ran |-> TRUE,
           table |-> passwordNotifyPreflightCheckPassed(
                        passwordTable, ThisQuizId, preflightData),
           data |-> preflightData]}
         \cup (IF preflightData.tabletquizpassword # Undefined
                THEN {unchanged("rejected", Undefined, TRUE)}
                ELSE {})
    ELSE {[settle |-> "resolved", answer |-> Undefined, ran |-> TRUE,
           table |-> passwordNotifyPreflightCheckFailed(
                        passwordTable, ThisQuizId, preflightData),
           data |-> preflightData],
          unchanged("rejected", Undefined, TRUE)}

(***************************************************************************)
(* One aggregate call of the delegate: the callbacks of all rules are      *)
(* started by rules.map, settle in any order, and the call returns once    *)
(* the awaited combination of their promises settles.                      *)
(***************************************************************************)
RegistryFrame ==
    UNCHANGED <<reviewVars, passwordCall, preflightVars, timeLeftVars,
                indexVars, onlineVars, extraVars>>

EnabledHandlerSets == {{}, RegisteredRules \ {CustomRule}, RegisteredRules}

InitRegistry ==
    /\ ReviewIdle
    /\ RegistryIdle
    /\ PreflightIdle
    /\ TimeLeftIdle
    /\ IndexIdle
    /\ OnlineIdle
    /\ ExtraIdle
    /\ enabledHandlers \in EnabledHandlerSets
    /\ rules \in SUBSET RuleNames
    /\ attemptPresent \in BOOLEAN
    /\ prefetch \in BOOLEAN
    /\ syncTime \in {nowMs - syncInterval - 1, nowMs - syncInterval}
    /\ preflightData \in
        {pd \in PreflightDatas :
            /\ pd.confirmdatasaved = Undefined
            /\ pd.tabletquizpassword \in {Undefined, Some("beta")}}
    /\ passwordTable \in
        {[q \in QuizIds |-> IF q = ThisQuizId THEN e ELSE Undefined] :
            e \in {Undefined, Some("alpha")}}
    /\ acceptedStored = {q \in QuizIds : passwordTable[q] # Undefined}
    /\ passwordCall = [op |-> "none"]

RegistryCall ==
    /\ regPc = "idle"
    /\ regOp' \in AggregateFunctions
    /\ regPc' = "running"
    /\ regTasks' = [r \in rules |-> "pending"]
    /\ isRequired' = FALSE
    /\ ruleAnswers' = [r \in rules |-> Undefined]
    /\ hooksRun' = {}
    /\ UNCHANGED <<regResult, supportedCall, callVars, passwordTable, acceptedStored>>
    /\ RegistryFrame

RegistryCallbackSettles ==
    /\ regPc \in {"running", "done"}
    /\ \E r \in rules :
        /\ regTasks[r] = "pending"
        /\ \E h \in HookSettlements(r, regOp) :
            /\ regTasks' = [regTasks EXCEPT ![r] = h.settle]
            /\ ruleAnswers' = [ruleAnswers EXCEPT ![r] = h.answer]
            /\ hooksRun' = IF h.ran THEN hooksRun \cup {r} ELSE hooksRun
            /\ isRequired' =
                IF regOp = "isPreflightCheckRequired" /\ h.settle = "resolved"
                THEN accumulateRequired(
                        isRequired, isPreflightCheckRequiredForRule(h.answer))
                ELSE isRequired
            /\ passwordTable' = h.table
            /\ acceptedStored' = {q \in QuizIds : h.table[q] # Undefined}
            /\ preflightData' = h.data
    /\ UNCHANGED <<regOp, regPc, regResult, supportedCall, enabledHandlers, rules,
                   attemptPresent, prefetch, syncTime>>
    /\ RegistryFrame

RegistryReturns ==
    /\ regPc = "running"
    /\ LET awaited == delegateAwaitAll({regTasks[r] : r \in rules})
       IN  /\ awaited # "pending"
           /\ regResult' =
                IF awaited = "rejected" THEN Throw("hook")
                ELSE IF regOp = "isPreflightCheckRequired" THEN Return(isRequired)
                ELSE Return(Undefined)
    /\ regPc' = "done"
    /\ UNCHANGED <<regOp, regTasks, isRequired, ruleAnswers, hooksRun, supportedCall,
                   callVars, passwordTable, acceptedStored>>
    /\ RegistryFrame

IsAccessRuleSupported ==
    /\ regPc = "done"
    /\ \E r \in RuleNames :
        supportedCall' = [rule |-> r, result |-> isAccessRuleSupported(r)]
    /\ UNCHANGED <<regOp, regPc, regTasks, isRequired, ruleAnswers, hooksRun,
                   regResult, callVars, passwordTable, acceptedStored>>
    /\ RegistryFrame

NextRegistry ==
    \/ RegistryCall
    \/ RegistryCallbackSettles
    \/ RegistryReturns
    \/ IsAccessRuleSupported

SpecRegistry == InitRegistry /\ [][NextRegistry]_vars

(***************************************************************************)
(* shouldShowTimeLeft of the delegate and of the time limit rule.          *)
(***************************************************************************)
\* Mutant: the time left is hidden after the end time for every attempt.
timeLimitShouldShowTimeLeft_AnyAttempt(preview, endTime, timeNow) ==
    ~(timeNow > endTime)

\* AddonModTabletTabletQuizAccessTimeLimitHandlerService.shouldShowTimeLeft
timeLimitShouldShowTimeLeft(preview, endTime, timeNow) ==
    ~(preview /\ timeNow > endTime)

\* executeFunctionOnEnabled(rule, 'shouldShowTimeLeft', ...): the hook's
\* answer, or undefined without an enabled handler that has the hook.
executeShouldShowTimeLeft(rule, preview, endTime, timeNow, customAnswer) ==
    IF ~(hasHandler(rule, enabledHandlers)
            /\ handlerImplements(rule, "shouldShowTimeLeft"))
    THEN Undefined
    ELSE IF rule = TimeLimitRule
    THEN Some(timeLimitShouldShowTimeLeft(preview, endTime, timeNow))
    ELSE Some(customAnswer)

\* The delegate's shouldShowTimeLeft: the loop over the rules returns true at
\* the first rule whose hook answers true, and false after the last rule.
RECURSIVE shouldShowTimeLeft(_, _, _, _, _)
shouldShowTimeLeft(remaining, preview, endTime, timeNow, customAnswer) ==
    IF remaining = {} THEN FALSE
    ELSE LET rule == CHOOSE r \in remaining : TRUE
         IN  IF executeShouldShowTimeLeft(
                    rule, preview, endTime, timeNow, customAnswer) = Some(TRUE)
             THEN TRUE
             ELSE shouldShowTimeLeft(remaining \ {rule}, preview, endTime,
                                     timeNow, customAnswer)

\* Attempt end times and current times (seconds) of the calls.
EndTimes == {TFinish}

TimeNows == {TFinish - 1, TFinish, TFinish + 1}

InitTimeLeft ==
    /\ ReviewIdle
    /\ PasswordIdle
    /\ RegistryIdle
    /\ PreflightIdle
    /\ TimeLeftIdle
    /\ IndexIdle
    /\ OnlineIdle
    /\ ExtraIdle
    /\ enabledHandlers \in EnabledHandlerSets
    /\ rules \in SUBSET RuleNames
    /\ attemptPresent = TRUE
    /\ prefetch = FALSE
    /\ syncTime = 0
    /\ preflightData = [tabletquizpassword |-> Undefined,
                        confirmdatasaved |-> Undefined]

ShouldShowTimeLeft ==
    /\ \E preview \in BOOLEAN, endTime \in EndTimes, timeNow \in TimeNows,
          customAnswer \in BOOLEAN :
        timeLeftCall' =
            [called |-> TRUE, preview |-> preview, endTime |-> endTime,
             timeNow |-> timeNow, customAnswer |-> customAnswer,
             result |-> shouldShowTimeLeft(rules, preview, endTime, timeNow,
                                           customAnswer)]
    /\ UNCHANGED <<reviewVars, passwordVars, callVars, registryVars,
                   preflightVars, indexVars, onlineVars, extraVars>>

NextTimeLeft == ShouldShowTimeLeft

SpecTimeLeft == InitTimeLeft /\ [][NextTimeLeft]_vars

\* C18: the delegate's shouldShowTimeLeft is true iff at least one active
\* rule has an enabled handler implementing the hook that returns true (a
\* rule without handler or without the hook contributes false); the hook of
\* the time limit rule returns false only when the attempt is a preview and
\* now is after the end time, and true otherwise.
C18_ShowTimeLeftIsOrOfHooks ==
    timeLeftCall.called =>
        timeLeftCall.result =
            \/ /\ TimeLimitRule \in rules \cap enabledHandlers
               /\ ~(timeLeftCall.preview
                        /\ timeLeftCall.timeNow > timeLeftCall.endTime)
            \/ /\ CustomRule \in rules \cap enabledHandlers
               /\ timeLeftCall.customAnswer

\* A preview after the end time: the time limit rule hides the time left,
\* the password rule has no hook and the unknown rule has no handler.
C18_Witness ==
    /\ timeLeftCall.called
    /\ rules = {TimeLimitRule, PasswordRule, UnknownRule}
    /\ TimeLimitRule \in enabledHandlers
    /\ timeLeftCall.preview
    /\ timeLeftCall.timeNow > timeLeftCall.endTime
    /\ timeLeftCall.result = FALSE

(***************************************************************************)
(* Properties of the delegate's aggregate functions.                       *)
(***************************************************************************)
RegistryDone == regPc = "done"

ActiveWithHandler == rules \cap enabledHandlers

\* What the handler of each rule of the addon answers in the call's situation.
PasswordRequires == passwordTable[ThisQuizId] = Undefined

TimeLimitRequires == ~attemptPresent

OfflineAttemptsRequires ==
    ~prefetch /\ (~attemptPresent \/ nowMs - syncInterval > syncTime)

HandlerRequires(r) ==
    \/ r = PasswordRule /\ PasswordRequires
    \/ r = TimeLimitRule /\ TimeLimitRequires
    \/ r = OfflineAttemptsRule /\ OfflineAttemptsRequires
    \/ r = CustomRule /\ ruleAnswers[r] = Some(TRUE)

\* C5: the delegate's isPreflightCheckRequired(rules) returns the logical OR
\* of the answers of the active rules' handlers, whatever the order in which
\* the concurrently evaluated rule checks complete; a rule name without a
\* registered enabled handler contributes false and never makes the
\* aggregation fail, while isAccessRuleSupported returns false for that name.
C5_RequiredIsOrOfHandlerAnswers ==
    /\ (RegistryDone /\ regOp = "isPreflightCheckRequired") =>
        /\ regResult = Return(\E r \in ActiveWithHandler : HandlerRequires(r))
        /\ \A r \in rules \ enabledHandlers :
            ruleAnswers[r] = Undefined /\ regTasks[r] = "resolved"
    /\ (supportedCall.rule # "none" /\ supportedCall.rule \notin enabledHandlers)
        => supportedCall.result = FALSE

C5_Witness ==
    /\ RegistryDone
    /\ regOp = "isPreflightCheckRequired"
    /\ UnknownRule \in rules
    /\ PasswordRule \in ActiveWithHandler
    /\ TimeLimitRule \in ActiveWithHandler
    /\ PasswordRequires
    /\ ~TimeLimitRequires
    /\ regResult = Return(TRUE)
    /\ supportedCall = [rule |-> UnknownRule, result |-> FALSE]

OfflineAttemptsAnswered ==
    /\ regOp = "isPreflightCheckRequired"
    /\ OfflineAttemptsRule \in hooksRun

\* C17: the offline attempts rule's isPreflightCheckRequired returns false
\* whenever the user is prefetching; when not prefetching it returns true if
\* no existing attempt is passed, and for an existing attempt it returns true
\* exactly when the last sync of the quiz is older than the sync interval
\* (now - syncInterval > lastSyncTime).
C17_OfflineAttemptsRequired ==
    OfflineAttemptsAnswered =>
        /\ ruleAnswers[OfflineAttemptsRule] \in {Some(TRUE), Some(FALSE)}
        /\ prefetch => ruleAnswers[OfflineAttemptsRule] = Some(FALSE)
        /\ (~prefetch /\ ~attemptPresent)
            => ruleAnswers[OfflineAttemptsRule] = Some(TRUE)
        /\ (~prefetch /\ attemptPresent)
            => ruleAnswers[OfflineAttemptsRule]
                = Some(nowMs - syncInterval > syncTime)

\* An attempt is continued and the last sync is 1 ms older than the interval.
C17_Witness ==
    /\ OfflineAttemptsAnswered
    /\ ~prefetch
    /\ attemptPresent
    /\ syncTime = nowMs - syncInterval - 1
    /\ ruleAnswers[OfflineAttemptsRule] = Some(TRUE)

\* C6: in the delegate's getFixedPreflightData, notifyPreflightCheckPassed
\* and notifyPreflightCheckFailed the hook of every active rule that has one
\* is invoked, and a hook that throws or rejects neither prevents the other
\* rules' hooks from running to completion (their effects are made) nor makes
\* the aggregate call fail.
C6_HookFailuresAreIsolated ==
    (RegistryDone /\ regOp # "isPreflightCheckRequired") =>
        /\ regResult = Return(Undefined)
        /\ \A r \in ActiveWithHandler :
            handlerImplements(r, regOp) =>
                (r \in hooksRun /\ regTasks[r] # "pending")
        /\ (regOp = "getFixedPreflightData"
                /\ OfflineAttemptsRule \in ActiveWithHandler)
            => preflightData.confirmdatasaved = Some("1")
        /\ (regOp = "notifyPreflightCheckFailed"
                /\ PasswordRule \in ActiveWithHandler
                /\ regTasks[PasswordRule] = "resolved")
            => passwordTable[ThisQuizId] = Undefined

C6_Witness ==
    /\ RegistryDone
    /\ regOp = "getFixedPreflightData"
    /\ CustomRule \in ActiveWithHandler
    /\ OfflineAttemptsRule \in ActiveWithHandler
    /\ regTasks[CustomRule] = "rejected"
    /\ OfflineAttemptsRule \in hooksRun
    /\ preflightData.confirmdatasaved = Some("1")
    /\ regResult = Return(Undefined)

(***************************************************************************)
(* The preflight loop of the helper: getAndCheckPreflightData,             *)
(* getPreflightData and validatePreflightData.                             *)
(***************************************************************************)
\* Number of times the user submits the preflight modal before giving up.
MaxSubmissions == 2

CoreError(names) == [type |-> "CoreError", notSupported |-> names]

CoreCanceledError == [type |-> "CoreCanceledError", notSupported |-> {}]

CoreWSError == [type |-> "CoreWSError", notSupported |-> {}]

\* Any error that is not a web service error (e.g. no network).
CoreNetworkError == [type |-> "CoreNetworkError", notSupported |-> {}]

\* Mutant: every error counts as an error of the web service.
isWebServiceError_AnyError(error) == TRUE

\* CoreWSError.isWebServiceError(error)
isWebServiceError(error) == error.type = "CoreWSError"

\* The delegate's isPreflightCheckRequired as one step, for the answer
\* customAnswer of the site plugin's handler.
delegateIsPreflightCheckRequired(customAnswer) ==
    \E r \in rules :
        IF r = CustomRule
        THEN hasHandler(r, enabledHandlers) /\ customAnswer
        ELSE \E h \in HookSettlements(r, "isPreflightCheckRequired") :
                isPreflightCheckRequiredForRule(h.answer)

\* The delegate's getFixedPreflightData as one step.
delegateGetFixedPreflightData(data) ==
    LET withPassword ==
            IF PasswordRule \in ActiveWithHandler
            THEN passwordGetFixedPreflightData(passwordTable, ThisQuizId, data)
            ELSE data
    IN  IF OfflineAttemptsRule \in ActiveWithHandler
        THEN offlineAttemptsGetFixedPreflightData(withPassword)
        ELSE withPassword

\* getPreflightData: the rules without a supported handler.
unsupportedRules(activeRules) ==
    {r \in activeRules : ~isAccessRuleSupported(r)}

\* What the form of the modal holds when the user submits it.
ModalForms ==
    IF PasswordRule \in ActiveWithHandler
    THEN {[tabletquizpassword |-> Some(p)] : p \in Passwords}
    ELSE {[tabletquizpassword |-> Undefined]}

EmptyForm == [tabletquizpassword |-> Undefined]

\* Mutant: a dismissed modal counts as the submission of an empty form.
modalResult_DismissalIsEmptyForm(modalData) ==
    Return(Coalesce(modalData, EmptyForm))

\* getPreflightData after the modal closed: `if (!modalData) throw new
\* CoreCanceledError(); return modalData;`
modalResult(modalData) ==
    IF modalData = Undefined
    THEN Throw(CoreCanceledError)
    ELSE Return(Coalesce(modalData, EmptyForm))

\* Object.assign(preflightData, data)
ObjectAssign(target, source) ==
    [target EXCEPT !.tabletquizpassword =
        IF source.tabletquizpassword = Undefined
        THEN @
        ELSE source.tabletquizpassword]

\* Mutant: a retry is attempted only if the failed round required a check.
shouldRetry_OnlyIfRequired(isPrefetch, isRetrying, required) ==
    ~isPrefetch /\ required

\* Mutant: a failed validation is retried also when prefetching.
shouldRetry_AlsoWhenPrefetching(isPrefetch, isRetrying, required) ==
    ~(isRetrying /\ ~required)

\* The catch block of getAndCheckPreflightData: rethrow when prefetching, or
\* when retrying and the preflight check was not required; retry otherwise.
shouldRetry(isPrefetch, isRetrying, required) ==
    ~isPrefetch /\ ~(isRetrying /\ ~required)

PreflightFrame ==
    UNCHANGED <<reviewVars, passwordCall, registryVars, timeLeftVars,
                indexVars, onlineVars, extraVars>>

InitPreflight ==
    /\ ReviewIdle
    /\ RegistryIdle
    /\ TimeLeftIdle
    /\ IndexIdle
    /\ OnlineIdle
    /\ ExtraIdle
    /\ enabledHandlers \in EnabledHandlerSets
    /\ rules \in SUBSET RuleNames
    /\ attemptPresent \in BOOLEAN
    /\ prefetch \in BOOLEAN
    /\ syncTime \in {nowMs - syncInterval - 1, nowMs - syncInterval}
    /\ preflightData = [tabletquizpassword |-> Undefined,
                        confirmdatasaved |-> Undefined]
    /\ passwordTable \in
        {[q \in QuizIds |-> IF q = ThisQuizId THEN e ELSE Undefined] :
            e \in {Undefined, Some("alpha")}}
    /\ acceptedStored = {q \in QuizIds : passwordTable[q] # Undefined}
    /\ passwordCall = [op |-> "none"]
    /\ pfPc = "entry"
    /\ retrying = FALSE
    /\ preflightCheckRequired = FALSE
    /\ pfResult = NoResult
    /\ pendingNotify = <<>>
    /\ round = 1
    /\ validations = 0
    /\ prompts = 0
    /\ roundLog = NewRound
    /\ lastFailure = Undefined
    /\ dismissed = Undefined

\* A round up to the opening of the modal: the delegate is asked whether a
\* check is required and, if so, getPreflightData rejects unsupported rules or
\* opens the modal.
getAndCheckPreflightData ==
    /\ pfPc = "entry"
    /\ \E customAnswer \in BOOLEAN :
        LET required == delegateIsPreflightCheckRequired(customAnswer)
            notSupported == unsupportedRules(rules)
        IN  /\ preflightCheckRequired' = required
            /\ IF ~required
               THEN /\ pfPc' = "fixed"
                    /\ UNCHANGED <<pfResult, prompts, roundLog>>
               ELSE IF notSupported # {}
               THEN /\ pfPc' = "done"
                    /\ pfResult' = Throw(CoreError(notSupported))
                    /\ UNCHANGED <<prompts, roundLog>>
               ELSE /\ pfPc' = "modal"
                    /\ prompts' = prompts + 1
                    /\ roundLog' = [roundLog EXCEPT !.prompts = @ + 1]
                    /\ UNCHANGED pfResult
    /\ UNCHANGED <<retrying, pendingNotify, round, validations, lastFailure,
                   dismissed, callVars, passwordTable, acceptedStored>>
    /\ PreflightFrame

\* The user submits the modal: its data is merged into the preflight data.
ModalSubmitted ==
    /\ pfPc = "modal"
    /\ prompts <= MaxSubmissions
    /\ \E form \in ModalForms :
        LET data == modalResult(Some(form))
        IN  /\ data.kind = "return"
            /\ preflightData' = ObjectAssign(preflightData, data.value)
            /\ roundLog' =
                [roundLog EXCEPT !.entered = data.value.tabletquizpassword]
    /\ pfPc' = "fixed"
    /\ UNCHANGED <<retrying, preflightCheckRequired, pfResult, pendingNotify,
                   round, validations, prompts, lastFailure, dismissed,
                   enabledHandlers, rules, attemptPresent, prefetch, syncTime,
                   passwordTable, acceptedStored>>
    /\ PreflightFrame

\* The user dismisses the modal without submitting.
ModalDismissed ==
    /\ pfPc = "modal"
    /\ dismissed' = Some([round |-> round, prompts |-> prompts,
                          validations |-> validations])
    /\ LET data == modalResult(Undefined)
       IN  IF data.kind = "throw"
           THEN /\ pfPc' = "done"
                /\ pfResult' = data
                /\ UNCHANGED preflightData
           ELSE /\ pfPc' = "fixed"
                /\ preflightData' = ObjectAssign(preflightData, data.value)
                /\ UNCHANGED pfResult
    /\ UNCHANGED <<retrying, preflightCheckRequired, pendingNotify, round,
                   validations, prompts, roundLog, lastFailure,
                   enabledHandlers, rules, attemptPresent, prefetch, syncTime,
                   passwordTable, acceptedStored>>
    /\ PreflightFrame

\* await AddonModTabletQuizAccessRuleDelegate.getFixedPreflightData(...)
GetFixedPreflightData ==
    /\ pfPc = "fixed"
    /\ preflightData' = delegateGetFixedPreflightData(preflightData)
    /\ pfPc' = "validate"
    /\ UNCHANGED <<retrying, preflightCheckRequired, pfResult, pendingNotify,
                   round, validations, prompts, roundLog, lastFailure, dismissed,
                   enabledHandlers, rules, attemptPresent, prefetch, syncTime,
                   passwordTable, acceptedStored>>
    /\ PreflightFrame

\* validatePreflightData: the web service accepts the preflight data;
\* notifyPreflightCheckPassed is called and not awaited.
ValidateSucceeds ==
    /\ pfPc = "validate"
    /\ validations' = validations + 1
    /\ roundLog' = [roundLog EXCEPT !.validated = TRUE]
    /\ pendingNotify' =
        Append(pendingNotify,
               [op |-> "notifyPreflightCheckPassed", data |-> preflightData])
    /\ pfResult' = Return("attempt")
    /\ pfPc' = "done"
    /\ UNCHANGED <<retrying, preflightCheckRequired, round, prompts, lastFailure,
                   dismissed, callVars, passwordTable, acceptedStored>>
    /\ PreflightFrame

\* validatePreflightData: the request fails.  On a web service error
\* notifyPreflightCheckFailed is called and not awaited; the error is
\* rethrown to the catch block of getAndCheckPreflightData, which rethrows
\* it or calls itself with retrying: true.
ValidateFails ==
    /\ pfPc = "validate"
    /\ validations' = validations + 1
    /\ \E error \in {CoreWSError, CoreNetworkError} :
        LET webServiceError == isWebServiceError(error)
        IN  /\ pendingNotify' =
                IF webServiceError
                THEN Append(pendingNotify,
                            [op |-> "notifyPreflightCheckFailed",
                             data |-> preflightData])
                ELSE pendingNotify
            /\ lastFailure' =
                Some([round |-> round, required |-> preflightCheckRequired,
                      retrying |-> retrying, error |-> error])
            /\ IF shouldRetry(prefetch, retrying, preflightCheckRequired)
               THEN /\ pfPc' = "entry"
                    /\ retrying' = TRUE
                    /\ round' = round + 1
                    /\ roundLog' = NewRound
                    /\ UNCHANGED pfResult
               ELSE /\ pfPc' = "done"
                    /\ pfResult' = Throw(error)
                    /\ roundLog' = [roundLog EXCEPT
                                      !.validated = TRUE,
                                      !.notifiedFailed = webServiceError]
                    /\ UNCHANGED <<retrying, round>>
    /\ UNCHANGED <<preflightCheckRequired, prompts, dismissed, callVars,
                   passwordTable, acceptedStored>>
    /\ PreflightFrame

\* The hooks of a notify call that was not awaited run: the password rule
\* stores or removes the password, unless the write is rejected.
NotifyHookSettles ==
    /\ \E i \in 1 .. Len(pendingNotify), dbOk \in BOOLEAN :
        LET call == pendingNotify[i]
        IN  /\ passwordTable' =
                IF ~(dbOk /\ PasswordRule \in ActiveWithHandler)
                THEN passwordTable
                ELSE IF call.op = "notifyPreflightCheckPassed"
                THEN passwordNotifyPreflightCheckPassed(
                        passwordTable, ThisQuizId, call.data)
                ELSE passwordNotifyPreflightCheckFailed(
                        passwordTable, ThisQuizId, call.data)
            /\ pendingNotify' =
                SubSeq(pendingNotify, 1, i - 1)
                    \o SubSeq(pendingNotify, i + 1, Len(pendingNotify))
    /\ acceptedStored' = {q \in QuizIds : passwordTable'[q] # Undefined}
    /\ UNCHANGED <<pfPc, retrying, preflightCheckRequired, pfResult, round,
                   validations, prompts, roundLog, lastFailure, dismissed,
                   callVars>>
    /\ PreflightFrame

NextPreflight ==
    \/ getAndCheckPreflightData
    \/ ModalSubmitted
    \/ ModalDismissed
    \/ GetFixedPreflightData
    \/ ValidateSucceeds
    \/ ValidateFails
    \/ NotifyHookSettles

SpecPreflight == InitPreflight /\ [][NextPreflight]_vars

(***************************************************************************)
(* Properties of the preflight loop.                                       *)
(***************************************************************************)
PreflightDone == pfPc = "done"

Failure == CHOOSE f \in lastFailure : TRUE

RetriedAfterFailure == round > Failure.round

SurfacedFailure ==
    /\ round = Failure.round
    /\ PreflightDone
    /\ pfResult = Throw(Failure.error)

\* C1 (as stated): when validatePreflightData fails and the call is not a
\* prefetch, a retry is attempted only if a preflight check was required in
\* the round that failed; if none was required in that round, the operation
\* terminates and surfaces the validation error.
C1_RetryOnlyIfCheckWasRequired ==
    (lastFailure # Undefined /\ ~prefetch) =>
        /\ RetriedAfterFailure => Failure.required
        /\ ~Failure.required => SurfacedFailure

\* C1 (amended): when validatePreflightData fails and the call is not a
\* prefetch, the operation terminates and surfaces the validation error
\* exactly when the failed round was itself a retry round in which no
\* preflight check was required; in every other case (a first round, or a
\* round in which a check was required) a retry round is started.
C1_RetryUnlessRetryingWithoutRequiredCheck ==
    (lastFailure # Undefined /\ ~prefetch) =>
        IF Failure.retrying /\ ~Failure.required
        THEN SurfacedFailure
        ELSE RetriedAfterFailure /\ retrying

\* The first round required no check (a stored password was sent), its
\* validation failed, and the retry round prompts the user.
C1_Witness ==
    /\ lastFailure # Undefined
    /\ ~prefetch
    /\ Failure.round = 1
    /\ ~Failure.retrying
    /\ ~Failure.required
    /\ RetriedAfterFailure
    /\ retrying
    /\ pfPc = "modal"
    /\ validations = 1

\* C3 (as stated): whenever an active rule name has no registered handler,
\* getAndCheckPreflightData fails with the unsupported-rules error carrying
\* exactly the active rule names without a handler, immediately: no
\* validation request is sent and no retry round is started.
C3_UnsupportedRuleSurfacedImmediately ==
    (unsupportedRules(rules) # {}) =>
        /\ validations = 0
        /\ round = 1
        /\ pfPc \in {"entry", "done"}
        /\ PreflightDone =>
            pfResult = Throw(CoreError(unsupportedRules(rules)))

\* C4: when the user dismisses the preflight modal without submitting, in
\* the first round or in a retry round, getAndCheckPreflightData terminates
\* with the cancellation error, propagated as it is: in that round no
\* validation request is sent and notifyPreflightCheckFailed is not called,
\* and afterwards no further round, validation request or prompt happens.
C4_DismissalCancelsWithoutValidation ==
    (dismissed # Undefined) =>
        LET at == CHOOSE d \in dismissed : TRUE
        IN  /\ PreflightDone
            /\ pfResult = Throw(CoreCanceledError)
            /\ ~roundLog.validated
            /\ ~roundLog.notifiedFailed
            /\ roundLog.prompts = 1
            /\ round = at.round
            /\ prompts = at.prompts
            /\ validations = at.validations

C4_Witness ==
    /\ dismissed # Undefined
    /\ PreflightDone
    /\ pfResult = Throw(CoreCanceledError)
    /\ round = 2
    /\ retrying
    /\ validations = 1
    /\ prompts = 2


(***************************************************************************)
(* The index component: attemptTabletQuiz.                                 *)
(***************************************************************************)
\* Calls of attemptTabletQuiz in one behaviour.
MaxCalls == 2

\* The pages the component can show once its content was loaded or failed to
\* load: without a quiz the spinner of the constructor is still on, a quiz
\* that is not offline has no spinner and no offline data.
IndexPages ==
    {page \in [tabletquiz : BOOLEAN, isTabletQuizOffline : BOOLEAN,
               currentStatus : DownloadStatuses, hasOffline : BOOLEAN,
               showStatusSpinner : BOOLEAN, prefetching : {0},
               reloadPending : {FALSE}, calls : {0}, opened : {0},
               errorsShown : {0}, lastPrefetch : {"none"}] :
        /\ ~page.tabletquiz =>
            ~page.isTabletQuizOffline /\ page.showStatusSpinner
        /\ ~page.isTabletQuizOffline => ~page.hasOffline
        /\ page.tabletquiz /\ ~page.isTabletQuizOffline =>
            ~page.showStatusSpinner}

\* openTabletQuiz: navigates to the player.
openTabletQuiz(page) == [page EXCEPT !.opened = @ + 1]

\* The try block of attemptTabletQuiz after the prefetch resolved, and its
\* finally block.
prefetchResolved(page) ==
    [openTabletQuiz(page) EXCEPT !.showStatusSpinner = FALSE,
                                 !.prefetching = @ - 1,
                                 !.lastPrefetch = "resolved"]

\* Mutant: a failed prefetch always shows the error.
prefetchRejected_AlwaysShowsError(page) ==
    [page EXCEPT !.errorsShown = @ + 1,
                 !.showStatusSpinner = FALSE,
                 !.prefetching = @ - 1,
                 !.lastPrefetch = "rejected"]

\* The catch block of attemptTabletQuiz, and its finally block.
prefetchRejected(page) ==
    [(IF page.hasOffline
      THEN openTabletQuiz(page)
      ELSE [page EXCEPT !.errorsShown = @ + 1])
        EXCEPT !.showStatusSpinner = FALSE,
               !.prefetching = @ - 1,
               !.lastPrefetch = "rejected"]

InitIndex ==
    /\ ReviewIdle
    /\ PasswordIdle
    /\ CallIdle
    /\ RegistryIdle
    /\ PreflightIdle
    /\ TimeLeftIdle
    /\ OnlineIdle
    /\ ExtraIdle
    /\ indexPage \in IndexPages

IndexFrame ==
    UNCHANGED <<reviewVars, passwordVars, callVars, registryVars,
                preflightVars, timeLeftVars, onlineVars, extraVars>>

\* attemptTabletQuiz up to its await: it aborts, opens the player, or turns
\* the spinner on and starts the prefetch.
attemptTabletQuiz ==
    /\ indexPage.calls < MaxCalls
    /\ LET called == [indexPage EXCEPT !.calls = @ + 1]
       IN  indexPage' =
            IF called.showStatusSpinner \/ ~called.tabletquiz
            THEN called
            ELSE IF ~called.isTabletQuizOffline
            THEN openTabletQuiz(called)
            ELSE IF called.currentStatus = DOWNLOADED
            THEN openTabletQuiz(called)
            ELSE [called EXCEPT !.showStatusSpinner = TRUE,
                                !.prefetching = @ + 1]
    /\ IndexFrame

PrefetchResolves ==
    /\ indexPage.prefetching > 0
    /\ indexPage' = prefetchResolved(indexPage)
    /\ IndexFrame

PrefetchRejects ==
    /\ indexPage.prefetching > 0
    /\ indexPage' = prefetchRejected(indexPage)
    /\ IndexFrame

\* The status listener of an offline quiz: showStatus with the new status.
showStatus ==
    /\ indexPage.tabletquiz
    /\ indexPage.isTabletQuizOffline
    /\ \E status \in DownloadStatuses \ {indexPage.currentStatus} :
        indexPage' =
            [indexPage EXCEPT
                !.currentStatus = status,
                !.showStatusSpinner = (status = DOWNLOADING),
                !.reloadPending =
                    @ \/ (status = DOWNLOADED
                            /\ indexPage.currentStatus = DOWNLOADING)]
    /\ IndexFrame

\* fetchContent of the reload that showStatus started: for an offline quiz
\* it reads again whether there is data to synchronize.
fetchContent ==
    /\ indexPage.reloadPending
    /\ \E hasDataToSync \in BOOLEAN :
        indexPage' = [indexPage EXCEPT !.hasOffline = hasDataToSync,
                                       !.reloadPending = FALSE]
    /\ IndexFrame

NextIndex ==
    \/ attemptTabletQuiz
    \/ PrefetchResolves
    \/ PrefetchRejects
    \/ showStatus
    \/ fetchContent

SpecIndex == InitIndex /\ [][NextIndex]_vars

\* A step in which a prefetch of attemptTabletQuiz settles.
PrefetchSettles == indexPage'.prefetching < indexPage.prefetching

OpensPlayerOnly ==
    /\ indexPage'.opened = indexPage.opened + 1
    /\ indexPage'.errorsShown = indexPage.errorsShown

ShowsErrorOnly ==
    /\ indexPage'.errorsShown = indexPage.errorsShown + 1
    /\ indexPage'.opened = indexPage.opened

\* C19: in attemptTabletQuiz for an offline quiz that is not downloaded, a
\* failed prefetch still opens the player if the quiz has offline data
\* (hasOffline), and otherwise shows the error without opening the player; a
\* successful prefetch opens the player; in every outcome the status spinner
\* is cleared when the operation ends.
C19_PrefetchFailureFallsBackToOffline ==
    [][PrefetchSettles =>
        /\ ~indexPage'.showStatusSpinner
        /\ indexPage'.lastPrefetch = "resolved" => OpensPlayerOnly
        /\ indexPage'.lastPrefetch = "rejected" =>
            IF indexPage.hasOffline THEN OpensPlayerOnly ELSE ShowsErrorOnly]_vars

\* The prefetch failed, the quiz had offline data and the player was opened.
C19_Witness ==
    /\ indexPage.lastPrefetch = "rejected"
    /\ indexPage.hasOffline
    /\ indexPage.calls = 1
    /\ indexPage.prefetching = 0
    /\ indexPage.opened = 1
    /\ indexPage.errorsShown = 0
    /\ ~indexPage.showStatusSpinner

(***************************************************************************)
(* Online calls: start_attempt, process_attempt and save_attempt.          *)
(***************************************************************************)
\* Longest warnings list of a response.
MaxWarnings == 2

\* CoreWSExternalWarning
WSWarnings ==
    {[warningcode |-> code, message |-> code]
        : code \in {"attemptalreadyclosed", "passwordrequired", "notopenyet"}}

\* response.warnings: absent, or a list of warnings that may be empty.
WarningLists ==
    {Undefined} \cup
    {Some(list) : list \in UNION {[1..n -> WSWarnings] : n \in 0..MaxWarnings}}

StartAttemptResponses ==
    [attempt : {"attempt1", "attempt2"}, warnings : WarningLists]

ProcessAttemptResponses == [state : AttemptStates, warnings : WarningLists]

SaveAttemptResponses == [status : BOOLEAN, warnings : WarningLists]

\* response.warnings?.length
hasWarnings(response) ==
    IF response.warnings = Undefined THEN FALSE
    ELSE Len(CHOOSE list \in response.warnings : TRUE) # 0

\* response.warnings[0]
firstWarning(response) == Head(CHOOSE list \in response.warnings : TRUE)

\* new CoreWSError(warning)
CoreWSErrorFrom(warning) ==
    [type |-> "CoreWSError", notSupported |-> {}, warning |-> warning]

\* Mutant: startAttempt rejects with the last warning.
startAttempt_LastWarning(response) ==
    IF hasWarnings(response)
    THEN LET list == CHOOSE l \in response.warnings : TRUE
         IN  Throw(CoreWSErrorFrom(list[Len(list)]))
    ELSE Return(response.attempt)

\* startAttempt, once site.write resolved with the response.
startAttempt(response) ==
    IF hasWarnings(response)
    THEN Throw(CoreWSErrorFrom(firstWarning(response)))
    ELSE Return(response.attempt)

\* processAttemptOnline, once site.write resolved with the response.
processAttemptOnline(response) ==
    IF hasWarnings(response)
    THEN Throw(CoreWSErrorFrom(firstWarning(response)))
    ELSE Return(response.state)

\* saveAttemptOnline, once site.write resolved with the response.
saveAttemptOnline(response) ==
    IF hasWarnings(response)
    THEN Throw(CoreWSErrorFrom(firstWarning(response)))
    ELSE IF ~response.status
    THEN Throw(CoreError({}))
    ELSE Return("void")

\* validatePreflightData without an attempt: startAttempt, then the
\* notification of the rules.
validatePreflightDataNotifies(outcome) ==
    IF outcome.kind = "return" THEN "notifyPreflightCheckPassed"
    ELSE IF isWebServiceError(outcome.error) THEN "notifyPreflightCheckFailed"
    ELSE "none"

InitOnline ==
    /\ ReviewIdle
    /\ PasswordIdle
    /\ CallIdle
    /\ RegistryIdle
    /\ PreflightIdle
    /\ TimeLeftIdle
    /\ IndexIdle
    /\ OnlineIdle
    /\ ExtraIdle

OnlineFrame ==
    UNCHANGED <<reviewVars, passwordVars, callVars, registryVars,
                preflightVars, timeLeftVars, indexVars, extraVars>>

StartAttempt ==
    /\ \E response \in StartAttemptResponses :
        wsCall' = [op |-> "startAttempt", response |-> Some(response),
                   result |-> startAttempt(response), notified |-> "none"]
    /\ OnlineFrame

ProcessAttemptOnline ==
    /\ \E response \in ProcessAttemptResponses :
        wsCall' = [op |-> "processAttemptOnline", response |-> Some(response),
                   result |-> processAttemptOnline(response),
                   notified |-> "none"]
    /\ OnlineFrame

SaveAttemptOnline ==
    /\ \E response \in SaveAttemptResponses :
        wsCall' = [op |-> "saveAttemptOnline", response |-> Some(response),
                   result |-> saveAttemptOnline(response), notified |-> "none"]
    /\ OnlineFrame

\* site.write rejects: there is no response, and the call rejects with the
\* error of the request.
WriteRejects ==
    /\ \E op \in {"startAttempt", "processAttemptOnline", "saveAttemptOnline"},
          error \in {CoreWSError, CoreNetworkError} :
        wsCall' = [op |-> op, response |-> Undefined, result |-> Throw(error),
                   notified |-> "none"]
    /\ OnlineFrame

\* validatePreflightData starting a new attempt: site.write resolved.
ValidatePreflightDataStartsAttempt ==
    /\ \E response \in StartAttemptResponses :
        LET outcome == startAttempt(response)
        IN  wsCall' = [op |-> "validatePreflightData",
                       response |-> Some(response),
                       result |-> outcome,
                       notified |-> validatePreflightDataNotifies(outcome)]
    /\ OnlineFrame

\* validatePreflightData starting a new attempt: site.write rejected.
ValidatePreflightDataWriteRejects ==
    /\ \E error \in {CoreWSError, CoreNetworkError} :
        LET outcome == Throw(error)
        IN  wsCall' = [op |-> "validatePreflightData",
                       response |-> Undefined,
                       result |-> outcome,
                       notified |-> validatePreflightDataNotifies(outcome)]
    /\ OnlineFrame

NextOnline ==
    \/ StartAttempt
    \/ ProcessAttemptOnline
    \/ SaveAttemptOnline
    \/ WriteRejects
    \/ ValidatePreflightDataStartsAttempt
    \/ ValidatePreflightDataWriteRejects

SpecOnline == InitOnline /\ [][NextOnline]_vars

\* The response of the last online call carried a non-empty warnings list.
ResponseHasWarnings ==
    IF wsCall.response = Undefined THEN FALSE
    ELSE hasWarnings(CHOOSE response \in wsCall.response : TRUE)

FirstWarningOfResponse ==
    firstWarning(CHOOSE response \in wsCall.response : TRUE)

\* C20: for start_attempt, process_attempt and save_attempt a response with
\* a non-empty warnings list makes the operation fail with a web service
\* error built from the first warning, and the success value is not
\* returned; a warning on start_attempt during validatePreflightData is
\* treated as a failed preflight.
C20_WarningsAreHardFailures ==
    ResponseHasWarnings =>
        /\ wsCall.result = Throw(CoreWSErrorFrom(FirstWarningOfResponse))
        /\ wsCall.result.kind # "return"
        /\ wsCall.op = "validatePreflightData" =>
            wsCall.notified = "notifyPreflightCheckFailed"

\* start_attempt answered validatePreflightData with two different
\* warnings: the call failed with the first one and the rules were told
\* that the preflight check failed.
C20_Witness ==
    /\ wsCall.op = "validatePreflightData"
    /\ ResponseHasWarnings
    /\ LET list ==
            CHOOSE l \in (CHOOSE r \in wsCall.response : TRUE).warnings : TRUE
       IN  Len(list) = 2 /\ list[1] # list[2]
    /\ wsCall.result.kind = "throw"
    /\ wsCall.notified = "notifyPreflightCheckFailed"

(***************************************************************************)
(* isTabletQuizOffline and isNavigationSequential.                         *)
(***************************************************************************)
\* AddonModTabletTabletQuizNavMethods
NAV_FREE == "free"

NAV_SEQ == "sequential"

\* The fields of the quiz WS data read by isTabletQuizOffline: both are
\* optional, allowofflineattempts is a number.
OfflineQuizzes ==
    [allowofflineattempts : {Undefined, Some(0), Some(1), Some(2)},
     navmethod : {Undefined, Some(NAV_FREE), Some(NAV_SEQ)}]

\* CoreSites.getCurrentSite(): no site, or a site with offline enabled or
\* disabled.
CurrentSites == {"nosite", "offlineenabled", "offlinedisabled"}

isNavigationSequential(tq) == tq.navmethod = Some(NAV_SEQ)

\* CoreSites.getCurrentSite()?.isOfflineDisabled(), as a truth value.
isOfflineDisabled(site) == site = "offlinedisabled"

\* Mutant: a quiz with sequential navigation can be offline.
isTabletQuizOffline_AnyNavigation(tq, site) ==
    /\ tq.allowofflineattempts # Undefined
    /\ tq.allowofflineattempts # Some(0)
    /\ ~isOfflineDisabled(site)

isTabletQuizOffline(tq, site) ==
    /\ tq.allowofflineattempts # Undefined
    /\ tq.allowofflineattempts # Some(0)
    /\ ~isNavigationSequential(tq)
    /\ ~isOfflineDisabled(site)

OfflineFrame ==
    UNCHANGED <<reviewVars, passwordVars, callVars, registryVars,
                preflightVars, timeLeftVars, indexVars, onlineVars,
                reviewPage, prefetchHandler, prefetchRun, buttonCall,
                displayClock>>

InitOffline ==
    /\ ReviewIdle
    /\ PasswordIdle
    /\ CallIdle
    /\ RegistryIdle
    /\ PreflightIdle
    /\ TimeLeftIdle
    /\ IndexIdle
    /\ OnlineIdle
    /\ ReviewPageIdle
    /\ PrefetchHandlerIdle
    /\ PrefetchRunIdle
    /\ ButtonIdle
    /\ ClockIdle
    /\ offlineCall \in [called : {FALSE}, op : {"none"},
                        tabletquiz : OfflineQuizzes, site : CurrentSites,
                        result : {FALSE}]

IsTabletQuizOffline ==
    /\ offlineCall' =
        [offlineCall EXCEPT
            !.called = TRUE,
            !.op = "isTabletQuizOffline",
            !.result = isTabletQuizOffline(offlineCall.tabletquiz,
                                           offlineCall.site)]
    /\ OfflineFrame

IsNavigationSequential ==
    /\ offlineCall' =
        [offlineCall EXCEPT
            !.called = TRUE,
            !.op = "isNavigationSequential",
            !.result = isNavigationSequential(offlineCall.tabletquiz)]
    /\ OfflineFrame

NextOffline == IsTabletQuizOffline \/ IsNavigationSequential

SpecOffline == InitOffline /\ [][NextOffline]_vars

\* The quiz allows offline attempts: the field is present and not 0.
AllowsOfflineAttempts ==
    \E n \in {1, 2} : offlineCall.tabletquiz.allowofflineattempts = Some(n)

\* C21: isTabletQuizOffline returns true if and only if the quiz allows
\* offline attempts, its navigation method is not sequential, and the
\* current site does not have offline disabled.
C21_OfflineCapableIff ==
    offlineCall.called /\ offlineCall.op = "isTabletQuizOffline" =>
        offlineCall.result =
            /\ AllowsOfflineAttempts
            /\ offlineCall.tabletquiz.navmethod # Some(NAV_SEQ)
            /\ offlineCall.site # "offlinedisabled"

\* A quiz that allows offline attempts on a site with offline enabled is not
\* offline-capable because its navigation is sequential.
C21_Witness ==
    /\ offlineCall.called
    /\ offlineCall.op = "isTabletQuizOffline"
    /\ offlineCall.tabletquiz.allowofflineattempts = Some(1)
    /\ offlineCall.tabletquiz.navmethod = Some(NAV_SEQ)
    /\ offlineCall.site = "offlineenabled"
    /\ offlineCall.result = FALSE

(***************************************************************************)
(* The index component: auto review after an attempt was finished.         *)
(***************************************************************************)
\* Attempt-finished events in one behaviour.
MaxEvents == 2

\* Highest attempt id of the quiz.
MaxAttemptId == 2

\* Refreshes of ionViewDidEnter awaited at the same time.
MaxRefreshes == 1

ThisQuiz == "thisquiz"

OtherQuiz == "otherquiz"

\* AddonModTabletTabletQuizAttemptFinishedData; event numbers the events of a
\* behaviour (history).
FinishedEvents ==
    [tabletquizId : {ThisQuiz, OtherQuiz}, attemptId : 1..MaxAttemptId,
     event : 1..MaxEvents]

\* The attempts a fetch returns, in the order of their ids: for every id no
\* attempt, an attempt in progress or a finished attempt.
RECURSIVE AttemptListsUpTo(_)
AttemptListsUpTo(n) ==
    IF n = 0 THEN {<<>>}
    ELSE LET shorter == AttemptListsUpTo(n - 1)
         IN  shorter \cup
             {Append(list, [id |-> n, state |-> state]) :
                list \in shorter, state \in {"inprogress", "finished"}}

FetchedAttempts == AttemptListsUpTo(MaxAttemptId)

\* getLastCompletedAttemptFromList, as an optional value.
RECURSIVE getLastCompletedAttemptFromList(_)
getLastCompletedAttemptFromList(attempts) ==
    IF attempts = <<>> THEN Undefined
    ELSE LET last == attempts[Len(attempts)]
         IN  IF isAttemptCompleted(last.state) THEN Some(last)
             ELSE getLastCompletedAttemptFromList(
                    SubSeq(attempts, 1, Len(attempts) - 1))

\* attempts.find(attempt => attempt.id === attemptId), as an optional value.
findAttempt(attempts, attemptId) ==
    {attempts[i] : i \in {j \in DOMAIN attempts : attempts[j].id = attemptId}}

\* Mutant: the observer takes the data of every quiz.
onAttemptFinished_AnyQuiz(page, data) ==
    IF page.tabletquiz
    THEN [page EXCEPT !.autoReview = Some(data)]
    ELSE page

\* The observer of ADDON_MOD_TABLETQUIZ_ATTEMPT_FINISHED_EVENT.
onAttemptFinished(page, data) ==
    IF page.tabletquiz /\ data.tabletquizId = ThisQuiz
    THEN [page EXCEPT !.autoReview = Some(data)]
    ELSE page

\* goToAutoReview: autoReview is cleared before the first await.  The
\* attempts are the viewer's own, so canReviewAttempt settles without
\* waiting for a request and the view cannot change before the navigation.
goToAutoReview(page, attempts, mayReview) ==
    IF page.autoReview = Undefined THEN page
    ELSE LET data == CHOOSE d \in page.autoReview : TRUE
             found == findAttempt(attempts, data.attemptId)
             cleared == [page EXCEPT !.autoReview = Undefined]
         IN  IF ~page.tabletquiz \/ found = Undefined THEN cleared
             ELSE LET att == CHOOSE a \in found : TRUE
                      canReview == mayReview /\ isAttemptCompleted(att.state)
                  IN  IF ~canReview THEN cleared
                      ELSE [cleared EXCEPT !.reviewed =
                                Append(@, [attemptId |-> att.id,
                                           event |-> data.event,
                                           attempts |-> attempts,
                                           canReview |-> canReview,
                                           isCurrentView |-> page.isCurrentView,
                                           isDestroyed |-> page.isDestroyed])]

\* Mutant: the review is opened in a view that is not the current one.
treatAttempts_AnyView(page, attempts, mayReview) ==
    IF attempts = <<>> THEN page
    ELSE LET lastCompleted == getLastCompletedAttemptFromList(attempts)
             openReview ==
                /\ page.autoReview # Undefined
                /\ lastCompleted # Undefined
                /\ (CHOOSE a \in lastCompleted : TRUE).id
                        >= (CHOOSE d \in page.autoReview : TRUE).attemptId
         IN  IF openReview THEN goToAutoReview(page, attempts, mayReview)
             ELSE page

\* treatAttempts, as far as the auto review goes.
treatAttempts(page, attempts, mayReview) ==
    IF attempts = <<>> THEN page
    ELSE LET lastCompleted == getLastCompletedAttemptFromList(attempts)
             openReview ==
                /\ page.autoReview # Undefined
                /\ lastCompleted # Undefined
                /\ (CHOOSE a \in lastCompleted : TRUE).id
                        >= (CHOOSE d \in page.autoReview : TRUE).attemptId
                /\ ~page.isDestroyed
                /\ page.isCurrentView
         IN  IF openReview THEN goToAutoReview(page, attempts, mayReview)
             ELSE page

\* The events whose data is pending in autoReview.
PendingEvents(page) == {data.event : data \in page.autoReview}

InitReviewPage ==
    /\ ReviewIdle
    /\ PasswordIdle
    /\ CallIdle
    /\ RegistryIdle
    /\ PreflightIdle
    /\ TimeLeftIdle
    /\ IndexIdle
    /\ OnlineIdle
    /\ OfflineIdle
    /\ PrefetchHandlerIdle
    /\ PrefetchRunIdle
    /\ ButtonIdle
    /\ ClockIdle
    /\ \E current \in BOOLEAN :
        reviewPage =
            [created |-> TRUE, tabletquiz |-> FALSE, autoReview |-> Undefined,
             hasPlayed |-> FALSE, isCurrentView |-> current,
             isDestroyed |-> FALSE, refreshing |-> 0, events |-> 0,
             foreign |-> {}, stale |-> {}, reviewed |-> <<>>]

ReviewPageFrame ==
    UNCHANGED <<reviewVars, passwordVars, callVars, registryVars,
                preflightVars, timeLeftVars, indexVars, onlineVars,
                offlineCall, prefetchHandler, prefetchRun, buttonCall,
                displayClock>>

\* An attempt-finished event is triggered while the observer is on.
AttemptFinishedEvent ==
    /\ reviewPage.events < MaxEvents
    /\ ~reviewPage.isDestroyed
    /\ \E data \in FinishedEvents :
        /\ data.event = reviewPage.events + 1
        /\ reviewPage' =
            [onAttemptFinished(reviewPage, data) EXCEPT
                !.events = @ + 1,
                !.foreign = IF data.tabletquizId = ThisQuiz
                            THEN @ ELSE @ \cup {data.event}]
    /\ ReviewPageFrame

\* fetchContent from getAttempts on: treatAttempts, then the quiz is shown.
FetchContentSettles ==
    /\ \E attempts \in FetchedAttempts, mayReview \in BOOLEAN :
        reviewPage' =
            [treatAttempts(reviewPage, attempts, mayReview) EXCEPT
                !.tabletquiz = TRUE]
    /\ ReviewPageFrame

\* openTabletQuiz: the user goes to the player.
OpenTabletQuiz ==
    /\ reviewPage.tabletquiz
    /\ reviewPage.isCurrentView
    /\ ~reviewPage.isDestroyed
    /\ reviewPage' = [reviewPage EXCEPT !.hasPlayed = TRUE]
    /\ ReviewPageFrame

\* ionViewDidEnter up to its await.
ionViewDidEnter ==
    /\ ~reviewPage.isCurrentView
    /\ ~reviewPage.isDestroyed
    /\ reviewPage.refreshing < MaxRefreshes
    /\ reviewPage' =
        IF ~reviewPage.hasPlayed
        THEN [reviewPage EXCEPT
                !.isCurrentView = TRUE,
                !.stale = @ \cup PendingEvents(reviewPage),
                !.autoReview = Undefined]
        ELSE [reviewPage EXCEPT
                !.isCurrentView = TRUE,
                !.hasPlayed = FALSE,
                !.refreshing = @ + 1]
    /\ ReviewPageFrame

\* ionViewDidEnter after refreshContent settled: the refresh fetched the
\* content or failed before it did, and autoReview is cleared.
RefreshContentSettles ==
    /\ reviewPage.refreshing > 0
    /\ \E fetched \in BOOLEAN, attempts \in FetchedAttempts,
          mayReview \in BOOLEAN :
        LET after == IF fetched
                     THEN [treatAttempts(reviewPage, attempts, mayReview)
                            EXCEPT !.tabletquiz = TRUE]
                     ELSE reviewPage
        IN  reviewPage' = [after EXCEPT !.refreshing = @ - 1,
                                        !.autoReview = Undefined]
    /\ ReviewPageFrame

ionViewDidLeave ==
    /\ reviewPage.isCurrentView
    /\ reviewPage' =
        [reviewPage EXCEPT
            !.isCurrentView = FALSE,
            !.stale = @ \cup PendingEvents(reviewPage),
            !.autoReview = Undefined]
    /\ ReviewPageFrame

ngOnDestroy ==
    /\ ~reviewPage.isDestroyed
    /\ reviewPage' = [reviewPage EXCEPT !.isDestroyed = TRUE]
    /\ ReviewPageFrame

NextReviewPage ==
    \/ AttemptFinishedEvent
    \/ FetchContentSettles
    \/ OpenTabletQuiz
    \/ ionViewDidEnter
    \/ RefreshContentSettles
    \/ ionViewDidLeave
    \/ ngOnDestroy

SpecReviewPage == InitReviewPage /\ [][NextReviewPage]_vars

\* The navigations to a review, as indices of the history.
Reviews == DOMAIN reviewPage.reviewed

OnlyPasswordRule == rules = {PasswordRule} /\ PasswordRule \in enabledHandlers

\* The first round sent a stored password (no check was required), the
\* validation failed with a web service error, and the retry round is past
\* its isPreflightCheckRequired.
RetryAfterStalePassword ==
    /\ OnlyPasswordRule
    /\ lastFailure # Undefined
    /\ round = 2
    /\ pfPc # "entry"
    /\ IF lastFailure = Undefined THEN FALSE
       ELSE LET failure == CHOOSE f \in lastFailure : TRUE
            IN  /\ failure.round = 1
                /\ ~failure.required
                /\ failure.error = CoreWSError

\* C23 (as stated): with the password rule active and a stale stored
\* password, after the validation failed with a web service error the retry
\* round of getAndCheckPreflightData sees the stored password as removed and
\* prompts the user, in every interleaving of notifyPreflightCheckFailed
\* with the isPreflightCheckRequired of the retry.
C23_RetryPromptsAfterStalePassword ==
    RetryAfterStalePassword => preflightCheckRequired /\ prompts = 1

\* The requests of the loop settle and its steps are taken; the user may
\* leave an open modal unanswered for ever.
SpecPreflightLive ==
    /\ SpecPreflight
    /\ WF_vars(getAndCheckPreflightData)
    /\ WF_vars(GetFixedPreflightData)
    /\ WF_vars(ValidateSucceeds \/ ValidateFails)

\* No round so far required a preflight check: no modal was opened and the
\* unsupported-rules error was not raised.
NoRoundRequiredCheck ==
    /\ prompts = 0
    /\ ~preflightCheckRequired

\* C24: when no round requires a preflight check getAndCheckPreflightData
\* terminates without user interaction: it sends at most two validation
\* requests (the initial one and one retry) and then surfaces the error; when
\* prefetching it sends exactly one validation request and surfaces its
\* error without a retry.
C24_TerminatesWithoutInteraction ==
    /\ [](NoRoundRequiredCheck =>
            /\ validations <= 2
            /\ round <= 2
            /\ prefetch => round = 1 /\ validations <= 1
            /\ (lastFailure # Undefined /\ (prefetch \/ Failure.round = 2)) =>
                /\ PreflightDone
                /\ pfResult = Throw(Failure.error)
            /\ PreflightDone => validations = IF prefetch THEN 1 ELSE round)
    /\ <>(PreflightDone \/ ~NoRoundRequiredCheck)

\* Without any required check the initial request and the retry failed, and
\* the error of the retry was surfaced.
C24_Witness ==
    /\ NoRoundRequiredCheck
    /\ ~prefetch
    /\ PreflightDone
    /\ validations = 2
    /\ round = 2
    /\ lastFailure # Undefined
    /\ Failure.round = 2
    /\ pfResult = Throw(Failure.error)

\* A step in which the validating request of validatePreflightData settles.
ValidationSettles == validations' = validations + 1

\* The validating request failed in this step, with this error.
ValidationFailed == lastFailure' # lastFailure

FailedWith == (CHOOSE f \in lastFailure' : TRUE).error

NotifiedInStep(op) ==
    pendingNotify' =
        Append(pendingNotify, [op |-> op, data |-> preflightData])

StoredPassword == passwordTable[ThisQuizId]

\* C25: validatePreflightData calls notifyPreflightCheckFailed, which
\* removes a stored password, only when the validating request failed with
\* a web service error; any other failure leaves the stored password
\* unchanged; notifyPreflightCheckPassed is called only after the validating
\* request succeeded; in all failure cases the original error is rethrown.
C25_NotifyFailedOnlyOnWebServiceError ==
    [][/\ ValidationSettles =>
            /\ passwordTable' = passwordTable
            /\ IF ~ValidationFailed
               THEN /\ NotifiedInStep("notifyPreflightCheckPassed")
                    /\ pfResult'.kind = "return"
               ELSE /\ IF FailedWith.type = "CoreWSError"
                       THEN NotifiedInStep("notifyPreflightCheckFailed")
                       ELSE pendingNotify' = pendingNotify
                    /\ pfResult'.kind # "return"
                    /\ pfPc' = "done" => pfResult' = Throw(FailedWith)
       /\ ~ValidationSettles =>
            \A i \in DOMAIN pendingNotify' :
                \E j \in DOMAIN pendingNotify :
                    pendingNotify'[i] = pendingNotify[j]
       /\ (StoredPassword # Undefined /\ StoredPassword' = Undefined) =>
            \E i \in DOMAIN pendingNotify :
                pendingNotify[i].op = "notifyPreflightCheckFailed"]_vars

\* The request failed without an answer of the web service: the stored
\* password is still there, nothing waits to remove it, and the error of the
\* request was surfaced.
C25_Witness ==
    /\ lastFailure # Undefined
    /\ Failure.error = CoreNetworkError
    /\ prefetch
    /\ PreflightDone
    /\ pfResult = Throw(CoreNetworkError)
    /\ StoredPassword # Undefined
    /\ pendingNotify = <<>>

\* The password of the preflight data, if it has the field.
PreflightPassword == preflightData.tabletquizpassword

\* The user was prompted in the current round and entered a password.
EnteredInRound == roundLog.prompts > 0 /\ roundLog.entered # Undefined

\* C26: getFixedPreflightData of the password rule never overwrites a
\* password present in the preflight data: in every round in which the user
\* was prompted the password sent for validation is the one entered in that
\* round, and the stored password is used only when the preflight data has
\* no password field.
C26_EnteredPasswordIsSent ==
    /\ []((pfPc = "validate" /\ EnteredInRound) =>
            PreflightPassword = roundLog.entered)
    /\ [][(pfPc = "fixed" /\ pfPc' = "validate") =>
            IF PreflightPassword # Undefined
            THEN PreflightPassword' = PreflightPassword
            ELSE PreflightPassword' \in {Undefined, StoredPassword}]_vars

\* In a retry round the user entered a password other than the stored one,
\* and the entered one is about to be sent.
C26_Witness ==
    /\ pfPc = "validate"
    /\ round = 2
    /\ EnteredInRound
    /\ StoredPassword # Undefined
    /\ StoredPassword # roundLog.entered
    /\ PreflightPassword = roundLog.entered

(***************************************************************************)
(* The prefetch handler: sync and prefetch of a module.                    *)
(***************************************************************************)
\* Calls of sync and prefetch on the module in one behaviour.
MaxHandlerCalls == 4

\* How a sync call ends: getTabletQuiz rejects, syncTabletQuiz rejects, or
\* syncTabletQuiz resolves with or without a finished attempt.
SyncOutcomes ==
    {"getTabletQuizRejected", "syncTabletQuizRejected", "attemptFinished",
     "noAttemptFinished"}

\* module.attemptFinished after sync: getTabletQuiz is awaited before the
\* try block, so its rejection leaves the field as it was.
syncAttemptFinished(flag, outcome) ==
    IF outcome = "getTabletQuizRejected" THEN flag
    ELSE IF outcome = "syncTabletQuizRejected" THEN Some(FALSE)
    ELSE Some(outcome = "attemptFinished")

\* prefetch returns without downloading if module.attemptFinished is true.
prefetchSkipped(flag) == flag = Some(TRUE)

InitPrefetchHandler ==
    /\ ReviewIdle
    /\ PasswordIdle
    /\ CallIdle
    /\ RegistryIdle
    /\ PreflightIdle
    /\ TimeLeftIdle
    /\ IndexIdle
    /\ OnlineIdle
    /\ OfflineIdle
    /\ ReviewPageIdle
    /\ PrefetchRunIdle
    /\ ButtonIdle
    /\ ClockIdle
    /\ prefetchHandler =
        [used |-> TRUE, attemptFinished |-> Undefined, calls |-> <<>>]

PrefetchHandlerFrame ==
    UNCHANGED <<reviewVars, passwordVars, callVars, registryVars,
                preflightVars, timeLeftVars, indexVars, onlineVars,
                offlineCall, reviewPage, prefetchRun, buttonCall,
                displayClock>>

\* sync(module, courseId, siteId)
Sync ==
    /\ Len(prefetchHandler.calls) < MaxHandlerCalls
    /\ \E outcome \in SyncOutcomes :
        LET flag == syncAttemptFinished(prefetchHandler.attemptFinished,
                                        outcome)
        IN  prefetchHandler' =
                [prefetchHandler EXCEPT
                    !.attemptFinished = flag,
                    !.calls = Append(@, [op |-> "sync", outcome |-> outcome,
                                         flagAfter |-> flag])]
    /\ PrefetchHandlerFrame

\* prefetch(module, courseId, ...): skipped with the flag deleted, or handed
\* to prefetchPackage, whose download succeeds or fails.
Prefetch ==
    /\ Len(prefetchHandler.calls) < MaxHandlerCalls
    /\ \E downloaded \in BOOLEAN :
        LET skipped == prefetchSkipped(prefetchHandler.attemptFinished)
            flag == IF skipped THEN Undefined
                    ELSE prefetchHandler.attemptFinished
            outcome == IF skipped THEN "skipped"
                       ELSE IF downloaded THEN "downloaded" ELSE "failed"
        IN  prefetchHandler' =
                [prefetchHandler EXCEPT
                    !.attemptFinished = flag,
                    !.calls = Append(@, [op |-> "prefetch",
                                         outcome |-> outcome,
                                         flagAfter |-> flag])]
    /\ PrefetchHandlerFrame

NextPrefetchHandler == Sync \/ Prefetch

SpecPrefetchHandler == InitPrefetchHandler /\ [][NextPrefetchHandler]_vars

HandlerCalls == prefetchHandler.calls

IsSync(i, outcomes) ==
    HandlerCalls[i].op = "sync" /\ HandlerCalls[i].outcome \in outcomes

IsPrefetch(i) == i \in DOMAIN HandlerCalls /\ HandlerCalls[i].op = "prefetch"

\* C27 (as stated): after a sync that finished an attempt the next prefetch
\* downloads nothing and clears attemptFinished, so that the prefetch after
\* it runs normally; a sync that fails or finishes no attempt leaves the flag
\* false and never suppresses a later prefetch.
C27_SyncSuppressesOnePrefetch ==
    \A i \in DOMAIN HandlerCalls :
        /\ (IsSync(i, {"attemptFinished"}) /\ IsPrefetch(i + 1)) =>
            /\ HandlerCalls[i + 1].outcome = "skipped"
            /\ HandlerCalls[i + 1].flagAfter # Some(TRUE)
            /\ IsPrefetch(i + 2) => HandlerCalls[i + 2].outcome # "skipped"
        /\ IsSync(i, SyncOutcomes \ {"attemptFinished"}) =>
            /\ HandlerCalls[i].flagAfter # Some(TRUE)
            /\ IsPrefetch(i + 1) => HandlerCalls[i + 1].outcome # "skipped"

(***************************************************************************)
(* The prefetch handler: prefetchTabletQuiz and the start of an attempt.   *)
(***************************************************************************)
\* attempts[attempts.length - 1]: no attempt, or the state of the last one.
LastAttempts == {Undefined} \cup {Some(state) : state \in AttemptStates}

\* attemptAccessInfo.preventnewattemptreasons
PreventNewAttemptReasons == {{}, {"noattemptsleft"}}

\* Mutant: a new attempt is needed whatever canStart says.
needsNewAttempt_IgnoresCanStart(canStart, lastAttempt) ==
    \/ lastAttempt = Undefined
    \/ \E state \in lastAttempt : isAttemptCompleted(state)

\* canStart && (!attempt || isAttemptCompleted(attempt.state))
needsNewAttempt(canStart, lastAttempt) ==
    /\ canStart
    /\ \/ lastAttempt = Undefined
       \/ \E state \in lastAttempt : isAttemptCompleted(state)

InitPrefetchRun ==
    /\ ReviewIdle
    /\ PasswordIdle
    /\ CallIdle
    /\ RegistryIdle
    /\ PreflightIdle
    /\ TimeLeftIdle
    /\ IndexIdle
    /\ OnlineIdle
    /\ OfflineIdle
    /\ ReviewPageIdle
    /\ PrefetchHandlerIdle
    /\ ButtonIdle
    /\ ClockIdle
    /\ prefetchRun \in
        [called : {TRUE}, canStart : BOOLEAN, single : BOOLEAN,
         lastAttempt : LastAttempts,
         preventnewattemptreasons : PreventNewAttemptReasons,
         pc : {"fetch"}, attempt : {Undefined}, startAttempt : {FALSE},
         startAttemptCalls : {0}, result : {NoResult}]

PrefetchRunFrame ==
    UNCHANGED <<reviewVars, passwordVars, callVars, registryVars,
                preflightVars, timeLeftVars, indexVars, onlineVars,
                offlineCall, reviewPage, prefetchHandler, buttonCall,
                displayClock>>

\* One of the first requests of prefetchTabletQuiz rejects.
PrefetchFetchRejects ==
    /\ prefetchRun.pc = "fetch"
    /\ prefetchRun' = [prefetchRun EXCEPT !.pc = "done",
                                          !.result = Throw(CoreNetworkError)]
    /\ PrefetchRunFrame

\* The first requests resolved: check if a new attempt has to be started.
CheckNewAttempt ==
    /\ prefetchRun.pc = "fetch"
    /\ LET run == [prefetchRun EXCEPT !.attempt = prefetchRun.lastAttempt]
       IN  prefetchRun' =
            IF ~(run.canStart \/ run.attempt # Undefined)
            THEN [run EXCEPT !.pc = "download"]
            ELSE IF ~needsNewAttempt(run.canStart, run.attempt)
            THEN [run EXCEPT !.pc = "preflight"]
            ELSE IF run.preventnewattemptreasons # {}
            THEN [run EXCEPT
                    !.pc = "done",
                    !.result = Throw(CoreError(run.preventnewattemptreasons))]
            ELSE [run EXCEPT !.pc = "preflight",
                             !.startAttempt = TRUE,
                             !.attempt = Undefined]
    /\ PrefetchRunFrame

\* getPreflightDataToAttemptOffline up to the validating request: a single
\* download goes through getAndCheckPreflightData, which may fail before it
\* validates (modal dismissed, unsupported rule); otherwise the fixed data
\* of the rules is collected.
GetPreflightDataToAttemptOffline ==
    /\ prefetchRun.pc = "preflight"
    /\ \E validates \in BOOLEAN :
        prefetchRun' =
            IF prefetchRun.single /\ ~validates
            THEN [prefetchRun EXCEPT !.pc = "done",
                                     !.result = Throw(CoreCanceledError)]
            ELSE [prefetchRun EXCEPT !.pc = "validate"]
    /\ PrefetchRunFrame

\* The validating request: start_attempt without an attempt; with one,
\* validatePreflightData asks for the attempt data (single download) or no
\* request is sent.
ValidateOrStartAttempt ==
    /\ prefetchRun.pc = "validate"
    /\ \E accepted \in BOOLEAN :
        LET starts == prefetchRun.attempt = Undefined
            requests == starts \/ prefetchRun.single
            sent == [prefetchRun EXCEPT
                        !.startAttemptCalls = IF starts THEN @ + 1 ELSE @]
        IN  prefetchRun' =
                IF requests /\ ~accepted
                THEN [sent EXCEPT !.pc = "done", !.result = Throw(CoreWSError)]
                ELSE [sent EXCEPT !.pc = "download"]
    /\ PrefetchRunFrame

\* The rest of prefetchTabletQuiz: the downloads succeed or fail.
PrefetchDownloads ==
    /\ prefetchRun.pc = "download"
    /\ \E downloaded \in BOOLEAN :
        prefetchRun' =
            [prefetchRun EXCEPT
                !.pc = "done",
                !.result = IF downloaded THEN Return("void")
                           ELSE Throw(CoreNetworkError)]
    /\ PrefetchRunFrame

NextPrefetchRun ==
    \/ PrefetchFetchRejects
    \/ CheckNewAttempt
    \/ GetPreflightDataToAttemptOffline
    \/ ValidateOrStartAttempt
    \/ PrefetchDownloads

SpecPrefetchRun == InitPrefetchRun /\ [][NextPrefetchRun]_vars

\* canStart is true and the user has no attempt or the last one is completed.
NewAttemptWanted ==
    /\ prefetchRun.canStart
    /\ \/ prefetchRun.lastAttempt = Undefined
       \/ prefetchRun.lastAttempt \in {Some("finished"), Some("abandoned")}

\* C28: during prefetchTabletQuiz start_attempt is called only if canStart
\* is true, the user has no attempt or the last attempt is completed, and
\* preventnewattemptreasons is empty; with reasons the prefetch aborts with
\* an error before any start_attempt call; when canStart is false or the
\* last attempt is unfinished no start_attempt call is made.
C28_StartAttemptOnlyWhenAllowed ==
    /\ prefetchRun.startAttemptCalls > 0 =>
        /\ NewAttemptWanted
        /\ prefetchRun.preventnewattemptreasons = {}
        /\ prefetchRun.startAttemptCalls = 1
    /\ (/\ NewAttemptWanted
        /\ prefetchRun.preventnewattemptreasons # {}
        /\ prefetchRun.pc # "fetch") =>
            /\ prefetchRun.pc = "done"
            /\ prefetchRun.result.kind = "throw"
            /\ prefetchRun.startAttemptCalls = 0

\* A section download (not single) with a finished last attempt started a
\* new attempt and went on to download.
C28_Witness ==
    /\ prefetchRun.startAttemptCalls = 1
    /\ ~prefetchRun.single
    /\ prefetchRun.lastAttempt = Some("finished")
    /\ prefetchRun.pc = "done"
    /\ prefetchRun.result = Return("void")

(***************************************************************************)
(* The index component: getButtonText.                                     *)
(***************************************************************************)
\* The fields getButtonText reads, as fetchContent and getAttempts left
\* them: attempts[0] is the last attempt, if there is one.
ButtonInputs ==
    [hasQuestions : BOOLEAN, hasSupportedQuestions : BOOLEAN,
     behaviourSupported : BOOLEAN,
     lastAttempt : {Undefined, Some("inprogress"), Some("finished")},
     canattempt : BOOLEAN, canpreview : BOOLEAN,
     preventnewattemptreasons : {{}, {"noattemptsleft"}},
     preventaccessreasons : {{}, {"notavailable"}},
     isfinished : BOOLEAN]

\* getUnsupportedRules(activerulenames)
getUnsupportedRules(rulesNames) ==
    {name \in rulesNames : ~isAccessRuleSupported(name)}

\* getAttempts: whether the user can create or continue attempts.
moreAttempts(in) ==
    IF in.lastAttempt # Undefined
    THEN (\E state \in in.lastAttempt : ~isAttemptCompleted(state))
            \/ ~in.isfinished
    ELSE ~in.isfinished

\* getButtonText up to `if (!this.buttonText) return;`
firstButtonText(in) ==
    IF ~in.hasQuestions THEN ""
    ELSE IF \E state \in in.lastAttempt : ~isAttemptCompleted(state)
    THEN IF in.canattempt
         THEN "addon.mod_tablettabletquiz.continueattempttabletquiz"
         ELSE IF in.canpreview
         THEN "addon.mod_tablettabletquiz.continuepreview"
         ELSE ""
    ELSE IF in.canattempt
    THEN IF in.preventnewattemptreasons # {} THEN ""
         ELSE IF in.lastAttempt = Undefined
         THEN "addon.mod_tablettabletquiz.attempttabletquiznow"
         ELSE "addon.mod_tablettabletquiz.reattempttabletquiz"
    ELSE IF in.canpreview
    THEN "addon.mod_tablettabletquiz.previewtabletquiznow"
    ELSE ""

\* Mutant: the button is kept with unsupported rules, questions or behaviour.
getButtonText_NoSupportCheck(in, unsupported) ==
    LET canOnlyPreview == in.canpreview /\ ~in.canattempt
        buttonText == firstButtonText(in)
    IN  IF buttonText = "" THEN ""
        ELSE IF ~moreAttempts(in) /\ ~canOnlyPreview THEN ""
        ELSE IF in.canattempt /\ in.preventaccessreasons # {} THEN ""
        ELSE buttonText

getButtonText(in, unsupported) ==
    LET canOnlyPreview == in.canpreview /\ ~in.canattempt
        buttonText == firstButtonText(in)
    IN  IF buttonText = "" THEN ""
        ELSE IF ~moreAttempts(in) /\ ~canOnlyPreview THEN ""
        ELSE IF in.canattempt /\ in.preventaccessreasons # {} THEN ""
        ELSE IF \/ ~in.hasSupportedQuestions
                \/ unsupported # {}
                \/ ~in.behaviourSupported
        THEN ""
        ELSE buttonText

InitButton ==
    /\ ReviewIdle
    /\ PasswordIdle
    /\ RegistryIdle
    /\ PreflightIdle
    /\ TimeLeftIdle
    /\ IndexIdle
    /\ OnlineIdle
    /\ OfflineIdle
    /\ ReviewPageIdle
    /\ PrefetchHandlerIdle
    /\ PrefetchRunIdle
    /\ ClockIdle
    /\ enabledHandlers \in EnabledHandlerSets
    /\ rules \in SUBSET {PasswordRule, UnknownRule}
    /\ attemptPresent = FALSE
    /\ prefetch = FALSE
    /\ syncTime = 0
    /\ preflightData = [tabletquizpassword |-> Undefined,
                        confirmdatasaved |-> Undefined]
    /\ \E in \in ButtonInputs :
        buttonCall = [called |-> FALSE, in |-> in, unsupportedRules |-> {},
                      buttonText |-> ""]

\* fetchContent from the access information on: unsupportedRules is set,
\* getAttempts sets moreAttempts and calls getButtonText.
GetButtonText ==
    /\ ~buttonCall.called
    /\ LET unsupported == getUnsupportedRules(rules)
       IN  buttonCall' =
            [buttonCall EXCEPT
                !.called = TRUE,
                !.unsupportedRules = unsupported,
                !.buttonText = getButtonText(buttonCall.in, unsupported)]
    /\ UNCHANGED <<reviewVars, passwordVars, callVars, registryVars,
                   preflightVars, timeLeftVars, indexVars, onlineVars,
                   offlineCall, reviewPage, prefetchHandler, prefetchRun,
                   displayClock>>

NextButton == GetButtonText

SpecButton == InitButton /\ [][NextButton]_vars

ButtonIn == buttonCall.in

\* C29: after getButtonText a non-empty button text implies that the quiz has
\* questions, it has a supported question type, no active access rule is
\* unsupported, the question behaviour is supported, more attempts are
\* possible or the viewer can only preview, and it is not the case that the
\* viewer can attempt while preventaccessreasons is non-empty.
C29_ButtonImpliesQuizCanBeOpened ==
    (buttonCall.called /\ buttonCall.buttonText # "") =>
        /\ ButtonIn.hasQuestions
        /\ ButtonIn.hasSupportedQuestions
        /\ \A name \in rules : name \in enabledHandlers
        /\ ButtonIn.behaviourSupported
        /\ \/ ~ButtonIn.isfinished
           \/ ButtonIn.lastAttempt = Some("inprogress")
           \/ ButtonIn.canpreview /\ ~ButtonIn.canattempt
        /\ ~(ButtonIn.canattempt /\ ButtonIn.preventaccessreasons # {})

\* The button to attempt again is shown with the password rule active.
C29_Witness ==
    /\ buttonCall.called
    /\ buttonCall.buttonText = "addon.mod_tablettabletquiz.reattempttabletquiz"
    /\ rules = {PasswordRule}
    /\ ButtonIn.lastAttempt = Some("finished")

(***************************************************************************)
(* getAttemptStateDisplayOption as the time advances.                      *)
(***************************************************************************)
\* The times (ms) at which the display state is asked for: around the finish
\* time, the end of the period after the finish, and the close times.
ClockTimes ==
    NowValues \cup
    {(TFinish - 1) * 1000, (TFinish + 300) * 1000 - 1, (TFinish + 400) * 1000}

\* The first time the display state is asked for: before the attempt's finish
\* time.
FirstClockTime == (TFinish - 1) * 1000

\* The completed attempts.
CompletedAttempts == {a \in Attempts : isAttemptCompleted(a.state)}

InitClock ==
    /\ ReviewIdle
    /\ PasswordIdle
    /\ CallIdle
    /\ RegistryIdle
    /\ PreflightIdle
    /\ TimeLeftIdle
    /\ IndexIdle
    /\ OnlineIdle
    /\ OfflineIdle
    /\ ReviewPageIdle
    /\ PrefetchHandlerIdle
    /\ PrefetchRunIdle
    /\ ButtonIdle
    /\ \E tq \in TabletQuizzes, att \in CompletedAttempts :
        /\ tq.reviewattempt = Undefined
        /\ displayClock =
            [observed |-> TRUE, tabletquiz |-> tq, attempt |-> att,
             now |-> FirstClockTime,
             option |-> getAttemptStateDisplayOption(tq, att, FirstClockTime),
             reported |-> <<>>]

\* The time advances and the display state of the same attempt of the same
\* quiz is asked for again.
ClockAdvances ==
    /\ \E now \in ClockTimes :
        /\ now > displayClock.now
        /\ displayClock' =
            [displayClock EXCEPT
                !.now = now,
                !.reported = Append(@, displayClock.option),
                !.option = getAttemptStateDisplayOption(
                                displayClock.tabletquiz, displayClock.attempt,
                                now)]
    /\ UNCHANGED <<reviewVars, passwordVars, callVars, registryVars,
                   preflightVars, timeLeftVars, indexVars, onlineVars,
                   offlineCall, reviewPage, prefetchHandler, prefetchRun,
                   buttonCall>>

NextClock == ClockAdvances

SpecClock == InitClock /\ [][NextClock]_vars

\* The place of a display state in the order IMMEDIATELY_AFTER,
\* LATER_WHILE_OPEN, AFTER_CLOSE.
DisplayOrder(option) ==
    IF option = IMMEDIATELY_AFTER THEN 1
    ELSE IF option = LATER_WHILE_OPEN THEN 2
    ELSE IF option = AFTER_CLOSE THEN 3
    ELSE 0

\* C30: for a fixed quiz and a fixed completed attempt, as the time advances
\* the display state of getAttemptStateDisplayOption only moves forward in
\* the order IMMEDIATELY_AFTER, LATER_WHILE_OPEN, AFTER_CLOSE; once
\* AFTER_CLOSE is reported it is reported at every later time.
C30_DisplayStateOnlyMovesForward ==
    [][/\ DisplayOrder(displayClock'.option) >= DisplayOrder(displayClock.option)
       /\ DisplayOrder(displayClock.option) >= 1
       /\ displayClock.option = AFTER_CLOSE =>
            displayClock'.option = AFTER_CLOSE]_vars

\* The quiz closed after the period that follows the finish: the attempt is
\* now in the last of the three states, long after the close.
C30_Witness ==
    /\ displayClock.observed
    /\ displayClock.tabletquiz.timeclose = TFinish + 300
    /\ displayClock.now = (TFinish + 400) * 1000
    /\ displayClock.reported = <<IMMEDIATELY_AFTER, LATER_WHILE_OPEN>>
    /\ displayClock.option = AFTER_CLOSE
====
